---------------------------- MODULE Spec2Model ----------------------------
(***************************************************************************)
(* A model of the WASM playground's Python analysis core:                  *)
(*   examples/wasm/src/python/ast_analyzer.py     (ASTAnalyzer,            *)
(*                                                 analyze_code)           *)
(*   examples/wasm/src/python/security_scanner.py (SecurityScanner,        *)
(*                                                 scan_security)          *)
(*                                                                         *)
(* A source text is a sequence of chunks; a chunk is one or more physical  *)
(* lines (each newline-terminated, each a sequence of tokens) that the     *)
(* parsing front-end (ast.parse) turns into at most one top-level          *)
(* statement, or rejects.  Trees are nested records that follow the        *)
(* _fields order of Python's ast node classes.                             *)
(***************************************************************************)
EXTENDS Integers, Sequences, FiniteSets, TLC

VARIABLES input, analyzer, scanner, result, calls

vars == <<input, analyzer, scanner, result, calls>>

(***************************************************************************)
(* Bounds of the model.                                                    *)
(***************************************************************************)
\* blank lines that may precede the statements of an input text
MaxPad == 1
\* calls of ASTAnalyzer.parse on one analyzer that may fail (caps errors)
MaxErrors == 2
\* interpreter frames left to analyze_code when it is entered
\* (sys.getrecursionlimit() minus the caller's depth), scaled down
RecursionLimit == 10
\* operators in the chain "x = 1 + 1 + ... + 1" of the deep_sum chunk
DeepNest == 6

(***************************************************************************)
(* Generic helpers.                                                        *)
(***************************************************************************)
Max(a, b) == IF a >= b THEN a ELSE b

RECURSIVE Flatten(_)
Flatten(ss) ==
    IF Len(ss) = 0 THEN <<>>
    ELSE IF Len(ss) = 1 THEN ss[1]
    ELSE Flatten(SubSeq(ss, 1, Len(ss) \div 2)) \o Flatten(SubSeq(ss, Len(ss) \div 2 + 1, Len(ss)))

RECURSIVE MaxOf(_)
MaxOf(ns) == IF ns = <<>> THEN 0 ELSE Max(Head(ns), MaxOf(Tail(ns)))

RECURSIVE SumOf(_)
SumOf(ns) == IF ns = <<>> THEN 0 ELSE Head(ns) + SumOf(Tail(ns))

Range(s) == {s[i] : i \in DOMAIN s}

\* list.index(x): 0-based position of the first element equal to x
ListIndex(s, x) == (CHOOSE i \in 1..Len(s) : s[i] = x /\ \A j \in 1..(i - 1) : s[j] # x) - 1

(***************************************************************************)
(* Primitive field values: a Python value with its type and its str().     *)
(***************************************************************************)
PStr(s) == [ty |-> "str", repr |-> s]
PInt(s) == [ty |-> "int", repr |-> s]
PBool(s) == [ty |-> "bool", repr |-> s]
PNone == [ty |-> "NoneType", repr |-> "None"]

(***************************************************************************)
(* Tree model: ast.AST nodes.  lineno = 0 stands for a node class without  *)
(* position attributes (Module, Load, Store, Add, arguments, ...).         *)
(***************************************************************************)
Node(kind, lineno, col, fields) ==
    [kind |-> kind, lineno |-> lineno, col_offset |-> col, fields |-> fields]

FNode(name, n) == [name |-> name, tag |-> "node", nodes |-> <<n>>, prim |-> PNone]
FList(name, ns) == [name |-> name, tag |-> "list", nodes |-> ns, prim |-> PNone]
FPrim(name, p) == [name |-> name, tag |-> "prim", nodes |-> <<>>, prim |-> p]

\* a primitive that is an element of a list-valued field (Global.names)
PrimItem(p) == Node("$prim", 0, 0, <<FPrim("", p)>>)
IsAST(n) == n.kind # "$prim"

Load == Node("Load", 0, 0, <<>>)
Store == Node("Store", 0, 0, <<>>)
Add == Node("Add", 0, 0, <<>>)

Module(body) == Node("Module", 0, 0, <<FList("body", body), FList("type_ignores", <<>>)>>)
Expr(value, ln, col) == Node("Expr", ln, col, <<FNode("value", value)>>)
Assign(targets, value, ln, col) ==
    Node("Assign", ln, col,
         <<FList("targets", targets), FNode("value", value), FPrim("type_comment", PNone)>>)
Name(id, ctx, ln, col) == Node("Name", ln, col, <<FPrim("id", PStr(id)), FNode("ctx", ctx)>>)
Attribute(value, attr, ln, col) ==
    Node("Attribute", ln, col,
         <<FNode("value", value), FPrim("attr", PStr(attr)), FNode("ctx", Load)>>)
Constant(p, ln, col) == Node("Constant", ln, col, <<FPrim("value", p), FPrim("kind", PNone)>>)
Keyword(arg, value, ln, col) ==
    Node("keyword", ln, col, <<FPrim("arg", PStr(arg)), FNode("value", value)>>)
Call(func, args, keywords, ln, col) ==
    Node("Call", ln, col,
         <<FNode("func", func), FList("args", args), FList("keywords", keywords)>>)
BinOp(left, op, right, ln, col) ==
    Node("BinOp", ln, col, <<FNode("left", left), FNode("op", op), FNode("right", right)>>)
FormattedValue(value, ln, col) ==
    Node("FormattedValue", ln, col,
         <<FNode("value", value), FPrim("conversion", PInt("-1")),
           FPrim("format_spec", PNone)>>)
JoinedStr(values, ln, col) == Node("JoinedStr", ln, col, <<FList("values", values)>>)
Pass(ln, col) == Node("Pass", ln, col, <<>>)
ReturnStmt(value, ln, col) == Node("Return", ln, col, <<FNode("value", value)>>)
arg(name, ln, col) ==
    Node("arg", ln, col,
         <<FPrim("arg", PStr(name)), FPrim("annotation", PNone), FPrim("type_comment", PNone)>>)
arguments(args) ==
    Node("arguments", 0, 0,
         <<FList("posonlyargs", <<>>), FList("args", args), FPrim("vararg", PNone),
           FList("kwonlyargs", <<>>), FList("kw_defaults", <<>>), FPrim("kwarg", PNone),
           FList("defaults", <<>>)>>)
Def(kind, name, args, body, ln, col) ==
    Node(kind, ln, col,
         <<FPrim("name", PStr(name)), FNode("args", arguments(args)), FList("body", body),
           FList("decorator_list", <<>>), FPrim("returns", PNone),
           FPrim("type_comment", PNone)>>)
FunctionDef(name, args, body, ln, col) == Def("FunctionDef", name, args, body, ln, col)
AsyncFunctionDef(name, args, body, ln, col) == Def("AsyncFunctionDef", name, args, body, ln, col)
ClassDef(name, body, ln, col) ==
    Node("ClassDef", ln, col,
         <<FPrim("name", PStr(name)), FList("bases", <<>>), FList("keywords", <<>>),
           FList("body", body), FList("decorator_list", <<>>)>>)
\* def name(args, *vararg): a function with a starred parameter
StarFunctionDef(name, args, vararg, body, ln, col) ==
    Node("FunctionDef", ln, col,
         <<FPrim("name", PStr(name)),
           FNode("args",
                 Node("arguments", 0, 0,
                      <<FList("posonlyargs", <<>>), FList("args", args), FNode("vararg", vararg),
                        FList("kwonlyargs", <<>>), FList("kw_defaults", <<>>),
                        FPrim("kwarg", PNone), FList("defaults", <<>>)>>)),
           FList("body", body), FList("decorator_list", <<>>), FPrim("returns", PNone),
           FPrim("type_comment", PNone)>>)
alias(name, asname, ln, col) ==
    Node("alias", ln, col, <<FPrim("name", PStr(name)), FPrim("asname", asname)>>)
Import(names, ln, col) == Node("Import", ln, col, <<FList("names", names)>>)
ImportFrom(module, names, level, ln, col) ==
    Node("ImportFrom", ln, col,
         <<FPrim("module", module), FList("names", names), FPrim("level", PInt(level))>>)
Global(names, ln, col) ==
    Node("Global", ln, col, <<FList("names", [i \in DOMAIN names |-> PrimItem(PStr(names[i]))])>>)
Try(body, handlers, ln, col) ==
    Node("Try", ln, col,
         <<FList("body", body), FList("handlers", handlers), FList("orelse", <<>>),
           FList("finalbody", <<>>)>>)
ExceptHandler(type, body, ln, col) ==
    Node("ExceptHandler", ln, col,
         <<FNode("type", type), FPrim("name", PNone), FList("body", body)>>)
If(test, body, ln, col) ==
    Node("If", ln, col, <<FNode("test", test), FList("body", body), FList("orelse", <<>>)>>)
For(target, iter, body, ln, col) ==
    Node("For", ln, col,
         <<FNode("target", target), FNode("iter", iter), FList("body", body),
           FList("orelse", <<>>), FPrim("type_comment", PNone)>>)

\* node.<name> for a declared field
Field(n, name) == n.fields[CHOOSE i \in DOMAIN n.fields : n.fields[i].name = name]
Child(n, name) == Field(n, name).nodes[1]
Children(n, name) == Field(n, name).nodes
Value(n, name) == Field(n, name).prim

(***************************************************************************)
(* The source texts.  A chunk names one or more physical lines; a line is  *)
(* a sequence of tokens.  "^L" is the form feed character, " " a blank.    *)
(***************************************************************************)
Repeat(s, n) == [i \in 1..(n * Len(s)) |-> s[((i - 1) % Len(s)) + 1]]

ChunkLines(c) ==
    CASE c = "blank" -> << <<>> >>
      [] c = "comment" -> << <<"#", " ", "note">> >>
      [] c = "indented_comment" -> << <<" ", " ", "#", " ", "note">> >>
      [] c = "pagebreak" -> << <<"^L">> >>
      [] c = "eval" -> << <<"eval", "(", "x", ")">> >>
      [] c = "os_system" -> << <<"os", ".", "system", "(", "cmd", ")">> >>
      [] c = "run_shell_true" ->
            << <<"subprocess", ".", "run", "(", "cmd", ",", " ", "shell", "=", "True", ")">> >>
      [] c = "run_shell_false" ->
            << <<"subprocess", ".", "run", "(", "cmd", ",", " ", "shell", "=", "False", ")">> >>
      [] c = "password" -> << <<"password", " ", "=", " ", "\"abc123\"">> >>
      [] c = "nested" -> << <<"compile", "(", "exec", "(", "b", ")", ")">> >>
      [] c = "execute_concat" ->
            << <<"cur", ".", "execute", "(", "\"q\"", " ", "+", " ", "uid", ")">> >>
      [] c = "open_name" -> << <<"open", "(", "path", ")">> >>
      [] c = "pickle_loads" -> << <<"pickle", ".", "loads", "(", "data", ")">> >>
      [] c = "md5" -> << <<"hashlib", ".", "md5", "(", "data", ")">> >>
      [] c = "dunder_import" -> << <<"__import__", "(", "name", ")">> >>
      [] c = "calls3" -> << <<"str", "(", "len", "(", "repr", "(", "x", ")", ")", ")">> >>
      [] c = "execute_fstring" -> << <<"cur", ".", "execute", "(", "f\"{q}\"", ")">> >>
      [] c = "execute_names" -> << <<"cur", ".", "execute", "(", "a", " ", "+", " ", "b", ")">> >>
      [] c = "execute_literal" -> << <<"cur", ".", "execute", "(", "\"q\"", ")">> >>
      [] c = "execute_bare" -> << <<"execute", "(", "f\"{q}\"", ")">> >>
      [] c = "open_attr" -> << <<"open", "(", "o", ".", "p", ")">> >>
      [] c = "open_literal" -> << <<"open", "(", "\"q\"", ")">> >>
      [] c = "open_sum" -> << <<"open", "(", "a", " ", "+", " ", "b", ")">> >>
      [] c = "def_f" ->
            << <<"def", " ", "f", "(", "a", ")", ":">>,
               <<" ", " ", " ", " ", "return", " ", "a">> >>
      [] c = "class_c" ->
            << <<"class", " ", "C", ":">>,
               <<" ", " ", " ", " ", "def", " ", "m", "(", "self", ")", ":">>,
               <<" ", " ", " ", " ", " ", " ", " ", " ", "pass">> >>
      [] c = "async_def" -> << <<"async", " ", "def", " ", "g", "(", ")", ":", " ", "pass">> >>
      [] c = "if_for" ->
            << <<"if", " ", "x", ":">>,
               <<" ", " ", " ", " ", "for", " ", "i", " ", "in", " ", "y", ":">>,
               <<" ", " ", " ", " ", " ", " ", " ", " ", "pass">> >>
      [] c = "import_os" -> << <<"import", " ", "os">> >>
      [] c = "import_pickle_as_p" -> << <<"import", " ", "pickle", " ", "as", " ", "p">> >>
      [] c = "p_loads" -> << <<"p", ".", "loads", "(", "data", ")">> >>
      [] c = "from_os_import_path" ->
            << <<"from", " ", "os", " ", "import", " ", "path", " ", "as", " ", "q">> >>
      [] c = "from_dot_import_x" -> << <<"from", " ", ".", " ", "import", " ", "x">> >>
      [] c = "global_g" -> << <<"global", " ", "g">> >>
      [] c = "def_star" ->
            << <<"def", " ", "h", "(", "a", ",", " ", "*", "rest", ")", ":", " ", "pass">> >>
      [] c = "class_nested" ->
            << <<"class", " ", "D", ":">>,
               <<" ", " ", " ", " ", "def", " ", "m", "(", "self", ")", ":">>,
               <<" ", " ", " ", " ", " ", " ", " ", " ",
                 "def", " ", "inner", "(", ")", ":", " ", "pass">>,
               <<" ", " ", " ", " ", "if", " ", "x", ":">>,
               <<" ", " ", " ", " ", " ", " ", " ", " ",
                 "def", " ", "n", "(", "self", ")", ":", " ", "pass">> >>
      [] c = "try_except" ->
            << <<"try", ":">>,
               <<" ", " ", " ", " ", "pass">>,
               <<"except", " ", "E", ":">>,
               <<" ", " ", " ", " ", "pass">> >>
      [] c = "connect_secrets" ->
            << <<"connect", "(", "password", "=", "\"abc123\"", ",", " ",
                 "db_password", "=", "\"q\"", ",", " ", "token", "=", "\"a.b-c\"", ")">> >>
      [] c = "password_feed" -> << <<"password", " ", "=", " ", "^L", "\"abc123\"">> >>
      [] c = "unmatched" -> << <<")">> >>
      [] c = "nul" -> << <<"x", " ", "=", " ", "1", "^@">> >>
      [] c = "too_deep" -> << <<"x", " ", "=", " ", "-", "-", "...", "1">> >>
      [] c = "deep_sum" -> << <<"x", " ", "=", " ", "1">> \o Repeat(<<" ", "+", " ", "1">>, DeepNest) >>

Chunks ==
    {"blank", "comment", "pagebreak", "eval", "os_system", "run_shell_true",
     "run_shell_false", "password", "nested", "execute_concat", "open_name",
     "pickle_loads", "md5", "dunder_import", "calls3", "unmatched", "too_deep", "deep_sum",
     "indented_comment", "execute_fstring", "execute_names", "execute_literal",
     "execute_bare", "open_attr", "open_literal", "open_sum", "def_f", "class_c",
     "async_def", "if_for", "nul", "import_os", "import_pickle_as_p", "p_loads",
     "from_os_import_path", "from_dot_import_x", "global_g", "def_star", "class_nested",
     "try_except", "connect_secrets", "password_feed"}

\* what the front-end makes of the chunk: a statement, nothing, or a rejection
ChunkParse(c) ==
    CASE c \in {"blank", "comment", "pagebreak", "indented_comment"} -> "none"
      [] c = "unmatched" -> "SyntaxError"
      [] c = "nul" -> "NullByte"
      [] c = "too_deep" -> "RecursionError"
      [] OTHER -> "stmt"

\* 1 + 1 + ... + 1 with n operators, left-nested, starting at column 4
RECURSIVE Sum(_, _)
Sum(n, ln) ==
    IF n = 0 THEN Constant(PInt("1"), ln, 4)
    ELSE BinOp(Sum(n - 1, ln), Add, Constant(PInt("1"), ln, 4 + 4 * n), ln, 4)

\* the statement of a chunk whose first physical line is line ln
ChunkStmt(c, ln) ==
    CASE c = "eval" ->
            Expr(Call(Name("eval", Load, ln, 0), <<Name("x", Load, ln, 5)>>, <<>>, ln, 0), ln, 0)
      [] c = "os_system" ->
            Expr(Call(Attribute(Name("os", Load, ln, 0), "system", ln, 0),
                      <<Name("cmd", Load, ln, 10)>>, <<>>, ln, 0), ln, 0)
      [] c = "run_shell_true" ->
            Expr(Call(Attribute(Name("subprocess", Load, ln, 0), "run", ln, 0),
                      <<Name("cmd", Load, ln, 15)>>,
                      <<Keyword("shell", Constant(PBool("True"), ln, 26), ln, 20)>>,
                      ln, 0), ln, 0)
      [] c = "run_shell_false" ->
            Expr(Call(Attribute(Name("subprocess", Load, ln, 0), "run", ln, 0),
                      <<Name("cmd", Load, ln, 15)>>,
                      <<Keyword("shell", Constant(PBool("False"), ln, 26), ln, 20)>>,
                      ln, 0), ln, 0)
      [] c = "password" ->
            Assign(<<Name("password", Store, ln, 0)>>, Constant(PStr("abc123"), ln, 11), ln, 0)
      [] c = "nested" ->
            Expr(Call(Name("compile", Load, ln, 0),
                      <<Call(Name("exec", Load, ln, 8), <<Name("b", Load, ln, 13)>>, <<>>, ln, 8)>>,
                      <<>>, ln, 0), ln, 0)
      [] c = "execute_concat" ->
            Expr(Call(Attribute(Name("cur", Load, ln, 0), "execute", ln, 0),
                      <<BinOp(Constant(PStr("q"), ln, 12), Add, Name("uid", Load, ln, 18), ln, 12)>>,
                      <<>>, ln, 0), ln, 0)
      [] c = "open_name" ->
            Expr(Call(Name("open", Load, ln, 0), <<Name("path", Load, ln, 5)>>, <<>>, ln, 0), ln, 0)
      [] c = "pickle_loads" ->
            Expr(Call(Attribute(Name("pickle", Load, ln, 0), "loads", ln, 0),
                      <<Name("data", Load, ln, 13)>>, <<>>, ln, 0), ln, 0)
      [] c = "md5" ->
            Expr(Call(Attribute(Name("hashlib", Load, ln, 0), "md5", ln, 0),
                      <<Name("data", Load, ln, 12)>>, <<>>, ln, 0), ln, 0)
      [] c = "dunder_import" ->
            Expr(Call(Name("__import__", Load, ln, 0), <<Name("name", Load, ln, 11)>>, <<>>,
                      ln, 0), ln, 0)
      [] c = "calls3" ->
            Expr(Call(Name("str", Load, ln, 0),
                      <<Call(Name("len", Load, ln, 4),
                             <<Call(Name("repr", Load, ln, 8), <<Name("x", Load, ln, 13)>>,
                                    <<>>, ln, 8)>>,
                             <<>>, ln, 4)>>,
                      <<>>, ln, 0), ln, 0)
      [] c = "deep_sum" ->
            Assign(<<Name("x", Store, ln, 0)>>, Sum(DeepNest, ln), ln, 0)
      [] c = "execute_fstring" ->
            Expr(Call(Attribute(Name("cur", Load, ln, 0), "execute", ln, 0),
                      <<JoinedStr(<<FormattedValue(Name("q", Load, ln, 15), ln, 12)>>, ln, 12)>>,
                      <<>>, ln, 0), ln, 0)
      [] c = "execute_names" ->
            Expr(Call(Attribute(Name("cur", Load, ln, 0), "execute", ln, 0),
                      <<BinOp(Name("a", Load, ln, 12), Add, Name("b", Load, ln, 16), ln, 12)>>,
                      <<>>, ln, 0), ln, 0)
      [] c = "execute_literal" ->
            Expr(Call(Attribute(Name("cur", Load, ln, 0), "execute", ln, 0),
                      <<Constant(PStr("q"), ln, 12)>>, <<>>, ln, 0), ln, 0)
      [] c = "execute_bare" ->
            Expr(Call(Name("execute", Load, ln, 0),
                      <<JoinedStr(<<FormattedValue(Name("q", Load, ln, 11), ln, 8)>>, ln, 8)>>,
                      <<>>, ln, 0), ln, 0)
      [] c = "open_attr" ->
            Expr(Call(Name("open", Load, ln, 0),
                      <<Attribute(Name("o", Load, ln, 5), "p", ln, 5)>>, <<>>, ln, 0), ln, 0)
      [] c = "open_literal" ->
            Expr(Call(Name("open", Load, ln, 0), <<Constant(PStr("q"), ln, 5)>>, <<>>, ln, 0),
                 ln, 0)
      [] c = "open_sum" ->
            Expr(Call(Name("open", Load, ln, 0),
                      <<BinOp(Name("a", Load, ln, 5), Add, Name("b", Load, ln, 9), ln, 5)>>,
                      <<>>, ln, 0), ln, 0)
      [] c = "def_f" ->
            FunctionDef("f", <<arg("a", ln, 6)>>,
                        <<ReturnStmt(Name("a", Load, ln + 1, 11), ln + 1, 4)>>, ln, 0)
      [] c = "class_c" ->
            ClassDef("C",
                     <<FunctionDef("m", <<arg("self", ln + 1, 10)>>, <<Pass(ln + 2, 8)>>,
                                   ln + 1, 4)>>,
                     ln, 0)
      [] c = "async_def" -> AsyncFunctionDef("g", <<>>, <<Pass(ln, 15)>>, ln, 0)
      [] c = "import_os" -> Import(<<alias("os", PNone, ln, 7)>>, ln, 0)
      [] c = "import_pickle_as_p" -> Import(<<alias("pickle", PStr("p"), ln, 7)>>, ln, 0)
      [] c = "p_loads" ->
            Expr(Call(Attribute(Name("p", Load, ln, 0), "loads", ln, 0),
                      <<Name("data", Load, ln, 8)>>, <<>>, ln, 0), ln, 0)
      [] c = "from_os_import_path" ->
            ImportFrom(PStr("os"), <<alias("path", PStr("q"), ln, 15)>>, "0", ln, 0)
      [] c = "from_dot_import_x" -> ImportFrom(PNone, <<alias("x", PNone, ln, 14)>>, "1", ln, 0)
      [] c = "global_g" -> Global(<<"g">>, ln, 0)
      [] c = "try_except" ->
            Try(<<Pass(ln + 1, 4)>>,
                <<ExceptHandler(Name("E", Load, ln + 2, 7), <<Pass(ln + 3, 4)>>, ln + 2, 0)>>,
                ln, 0)
      [] c = "def_star" ->
            StarFunctionDef("h", <<arg("a", ln, 6)>>, arg("rest", ln, 10), <<Pass(ln, 17)>>,
                            ln, 0)
      [] c = "class_nested" ->
            ClassDef("D",
                     <<FunctionDef("m", <<arg("self", ln + 1, 10)>>,
                                   <<FunctionDef("inner", <<>>, <<Pass(ln + 2, 21)>>, ln + 2, 8)>>,
                                   ln + 1, 4),
                       If(Name("x", Load, ln + 3, 7),
                          <<FunctionDef("n", <<arg("self", ln + 4, 14)>>, <<Pass(ln + 4, 21)>>,
                                        ln + 4, 8)>>,
                          ln + 3, 4)>>,
                     ln, 0)
      [] c = "connect_secrets" ->
            Expr(Call(Name("connect", Load, ln, 0), <<>>,
                      <<Keyword("password", Constant(PStr("abc123"), ln, 17), ln, 8),
                        Keyword("db_password", Constant(PStr("q"), ln, 39), ln, 27),
                        Keyword("token", Constant(PStr("a.b-c"), ln, 50), ln, 44)>>,
                      ln, 0), ln, 0)
      [] c = "password_feed" ->
            Assign(<<Name("password", Store, ln, 0)>>, Constant(PStr("abc123"), ln, 12), ln, 0)
      [] c = "if_for" ->
            If(Name("x", Load, ln, 3),
               <<For(Name("i", Store, ln + 1, 8), Name("y", Load, ln + 1, 13),
                     <<Pass(ln + 2, 8)>>, ln + 1, 4)>>,
               ln, 0)

\* the physical lines of a text, and the line on which its i-th chunk starts
PhysicalLines(src) == Flatten([i \in 1..Len(src) |-> ChunkLines(src[i])])
FirstLine(src, i) == 1 + SumOf([j \in 1..(i - 1) |-> Len(ChunkLines(src[j]))])

(***************************************************************************)
(* str.splitlines(): a line ends at a newline and also at a form feed (and *)
(* the other boundaries of str.splitlines, which no chunk contains).       *)
(***************************************************************************)
SplitAtFormFeed(toks) ==
    LET feeds == SelectSeq([i \in 1..Len(toks) |-> i], LAMBDA i : toks[i] = "^L")
        ends == feeds \o <<Len(toks) + 1>>
    IN [k \in DOMAIN ends |->
          SubSeq(toks, (IF k = 1 THEN 0 ELSE ends[k - 1]) + 1, ends[k] - 1)]

splitlines(src) ==
    Flatten([i \in 1..Len(PhysicalLines(src)) |-> SplitAtFormFeed(PhysicalLines(src)[i])])

\* str.strip(): without the leading and trailing whitespace
RECURSIVE LStrip(_)
LStrip(toks) ==
    IF toks # <<>> /\ Head(toks) \in {" ", "^L"} THEN LStrip(Tail(toks)) ELSE toks

RECURSIVE RStrip(_)
RStrip(toks) ==
    IF toks # <<>> /\ toks[Len(toks)] \in {" ", "^L"}
    THEN RStrip(SubSeq(toks, 1, Len(toks) - 1)) ELSE toks

strip(toks) == RStrip(LStrip(toks))

(***************************************************************************)
(* The parsing front-end, ast.parse: the tree of a text, or SyntaxError at *)
(* the first offending line, or (after the syntax is accepted) a           *)
(* RecursionError raised while the tree is built.  A text that holds a     *)
(* null byte ("^@") is rejected before any line is read: the SyntaxError   *)
(* has lineno None, written 0.                                             *)
(***************************************************************************)
NoTree == Node("None", 0, 0, <<>>)

FirstChunk(src, kind) ==
    CHOOSE i \in 1..Len(src) :
        /\ ChunkParse(src[i]) = kind
        /\ \A j \in 1..(i - 1) : ChunkParse(src[j]) # kind

StmtIndexes(src) == {i \in 1..Len(src) : ChunkParse(src[i]) = "stmt"}

RECURSIVE Body(_, _)
Body(src, i) ==
    IF i > Len(src) THEN <<>>
    ELSE IF ChunkParse(src[i]) = "stmt"
         THEN <<ChunkStmt(src[i], FirstLine(src, i))>> \o Body(src, i + 1)
         ELSE Body(src, i + 1)

ParseText(src) ==
    IF \E i \in 1..Len(src) : ChunkParse(src[i]) = "NullByte"
    THEN [raised |-> "SyntaxError", lineno |-> 0,
          msg |-> "source code string cannot contain null bytes", tree |-> NoTree]
    ELSE IF \E i \in 1..Len(src) : ChunkParse(src[i]) = "SyntaxError"
    THEN [raised |-> "SyntaxError", lineno |-> FirstLine(src, FirstChunk(src, "SyntaxError")),
          msg |-> "unmatched ')'", tree |-> NoTree]
    ELSE IF \E i \in 1..Len(src) : ChunkParse(src[i]) = "RecursionError"
    THEN [raised |-> "RecursionError", lineno |-> 0,
          msg |-> "maximum recursion depth exceeded during ast construction", tree |-> NoTree]
    ELSE [raised |-> "", lineno |-> 0, msg |-> "", tree |-> Module(Body(src, 1))]

\* the input texts: up to MaxPad blank lines, then up to two chunks
Pad(n) == [i \in 1..n |-> "blank"]

Bodies ==
    {<<>>} \cup {<<c>> : c \in Chunks} \cup {<<c, d>> : c \in Chunks, d \in Chunks}

Inputs == {Pad(n) \o b : n \in 0..MaxPad, b \in Bodies}

\* ast.parse is a function of the text alone: its results on the input texts,
\* tabulated once
ParsedTexts == {[source |-> src, parsed |-> ParseText(src)] : src \in Inputs}

ast_parse(src) == (CHOOSE p \in ParsedTexts : p.source = src).parsed

(***************************************************************************)
(* ast.iter_child_nodes and ast.walk (breadth-first, through a deque).     *)
(***************************************************************************)
FieldChildren(f) ==
    IF f.tag = "node" THEN f.nodes
    ELSE IF f.tag = "list" THEN SelectSeq(f.nodes, IsAST)
    ELSE <<>>

iter_child_nodes(n) == Flatten([i \in DOMAIN n.fields |-> FieldChildren(n.fields[i])])

\* the deque of ast.walk is first in, first out: the nodes of one depth leave it
\* in order and put their children behind them, so the walk yields todo and
\* then the walk of the children of todo
RECURSIVE WalkQueue(_)
WalkQueue(todo) ==
    IF todo = <<>> THEN <<>>
    ELSE todo \o WalkQueue(Flatten([i \in DOMAIN todo |-> iter_child_nodes(todo[i])]))

walk(n) == WalkQueue(<<n>>)

(***************************************************************************)
(* SecurityScanner.  A finding's title, description and recommendation    *)
(* are the parts of the (f-)string that builds them.                       *)
(***************************************************************************)
CRITICAL == "CRITICAL"
HIGH == "HIGH"
MEDIUM == "MEDIUM"
LOW == "LOW"
INFO == "INFO"

_add_issue(issues, severity, title, description, lineno, recommendation) ==
    Append(issues,
           [severity |-> severity, title |-> title, description |-> description,
            lineno |-> lineno, recommendation |-> recommendation])

IsCallOfName(node) == node.kind = "Call" /\ Child(node, "func").kind = "Name"
IsCallOfAttribute(node) == node.kind = "Call" /\ Child(node, "func").kind = "Attribute"
\* isinstance(node.func.value, ast.Name) and node.func.value.id == id
FuncValueIsName(node, id) ==
    /\ Child(Child(node, "func"), "value").kind = "Name"
    /\ Value(Child(Child(node, "func"), "value"), "id").repr = id
FuncAttr(node) == Value(Child(node, "func"), "attr").repr
FuncId(node) == Value(Child(node, "func"), "id").repr

dangerous_funcs ==
    [eval |-> <<HIGH, "Arbitrary code execution risk">>,
     exec |-> <<HIGH, "Arbitrary code execution risk">>,
     compile |-> <<MEDIUM, "Dynamic code compilation">>,
     __import__ |-> <<MEDIUM, "Dynamic import can load malicious code">>]

\* mutant: every dangerous function is reported as HIGH
DangerousNode_AllHigh(issues, node) ==
    IF IsCallOfName(node) /\ FuncId(node) \in DOMAIN dangerous_funcs
    THEN _add_issue(issues, HIGH,
                    <<"Dangerous function: ", FuncId(node), "()">>,
                    <<dangerous_funcs[FuncId(node)][2]>>,
                    node.lineno,
                    <<"Avoid using ", FuncId(node), "(). Consider safer alternatives">>)
    ELSE issues

DangerousNode(issues, node) ==
    IF IsCallOfName(node) /\ FuncId(node) \in DOMAIN dangerous_funcs
    THEN _add_issue(issues, dangerous_funcs[FuncId(node)][1],
                    <<"Dangerous function: ", FuncId(node), "()">>,
                    <<dangerous_funcs[FuncId(node)][2]>>,
                    node.lineno,
                    <<"Avoid using ", FuncId(node), "(). Consider safer alternatives">>)
    ELSE issues

\* for node in ast.walk(self.tree): the findings of each node, in walk order
_check_dangerous_functions(issues, tree) ==
    LET w == walk(tree) IN issues \o Flatten([i \in DOMAIN w |-> DangerousNode(<<>>, w[i])])

\* isinstance(child, ast.Constant) and isinstance(child.value, str), anywhere
_contains_string(node) ==
    \E i \in DOMAIN walk(node) :
        /\ walk(node)[i].kind = "Constant"
        /\ Value(walk(node)[i], "value").ty = "str"

\* mutant: any concatenation is reported, with or without a string literal
SqlNode_AnyConcatenation(issues, node) ==
    IF IsCallOfAttribute(node) /\ FuncAttr(node) = "execute" /\ Children(node, "args") # <<>>
    THEN LET first_arg == Children(node, "args")[1] IN
         IF first_arg.kind = "JoinedStr"
         THEN _add_issue(issues, HIGH, <<"SQL Injection: f-string in SQL query">>,
                         <<"Using f-strings for SQL queries allows injection attacks">>,
                         node.lineno,
                         <<"Use parameterized queries with placeholders">>)
         ELSE IF first_arg.kind = "BinOp" /\ Child(first_arg, "op").kind = "Add"
         THEN _add_issue(issues, HIGH,
                         <<"SQL Injection: String concatenation in query">>,
                         <<"String concatenation in SQL queries is unsafe">>,
                         node.lineno,
                         <<"Use parameterized queries instead of concatenation">>)
         ELSE issues
    ELSE issues

SqlNode(issues, node) ==
    IF IsCallOfAttribute(node) /\ FuncAttr(node) = "execute" /\ Children(node, "args") # <<>>
    THEN LET first_arg == Children(node, "args")[1] IN
         IF first_arg.kind = "JoinedStr"
         THEN _add_issue(issues, HIGH, <<"SQL Injection: f-string in SQL query">>,
                         <<"Using f-strings for SQL queries allows injection attacks">>,
                         node.lineno,
                         <<"Use parameterized queries with placeholders">>)
         ELSE IF first_arg.kind = "BinOp" /\ Child(first_arg, "op").kind = "Add"
         THEN IF _contains_string(first_arg)
              THEN _add_issue(issues, HIGH,
                              <<"SQL Injection: String concatenation in query">>,
                              <<"String concatenation in SQL queries is unsafe">>,
                              node.lineno,
                              <<"Use parameterized queries instead of concatenation">>)
              ELSE issues
         ELSE issues
    ELSE issues

\* for node in ast.walk(self.tree): the findings of each node, in walk order
_check_sql_injection(issues, tree) ==
    LET w == walk(tree) IN issues \o Flatten([i \in DOMAIN w |-> SqlNode(<<>>, w[i])])

\* mutant: every first argument that is no literal is reported
PathNode_AnyNonLiteral(issues, node) ==
    IF /\ IsCallOfName(node)
       /\ FuncId(node) \in {"open", "read", "write"}
       /\ Children(node, "args") # <<>>
       /\ Children(node, "args")[1].kind # "Constant"
    THEN _add_issue(issues, MEDIUM, <<"Potential path traversal">>,
                    <<"User-controlled file paths can lead to unauthorized access">>,
                    node.lineno,
                    <<"Validate and sanitize file paths.">>)
    ELSE issues

PathNode(issues, node) ==
    IF /\ IsCallOfName(node)
       /\ FuncId(node) \in {"open", "read", "write"}
       /\ Children(node, "args") # <<>>
       /\ Children(node, "args")[1].kind \in {"Name", "BinOp"}
    THEN _add_issue(issues, MEDIUM, <<"Potential path traversal">>,
                    <<"User-controlled file paths can lead to unauthorized access">>,
                    node.lineno,
                    <<"Validate and sanitize file paths.">>)
    ELSE issues

\* for node in ast.walk(self.tree): the findings of each node, in walk order
_check_path_traversal(issues, tree) ==
    LET w == walk(tree) IN issues \o Flatten([i \in DOMAIN w |-> PathNode(<<>>, w[i])])

PickleNode(issues, node) ==
    IF /\ IsCallOfAttribute(node)
       /\ FuncValueIsName(node, "pickle")
       /\ FuncAttr(node) \in {"loads", "load"}
    THEN _add_issue(issues, HIGH, <<"Unsafe deserialization: pickle">>,
                    <<"pickle.loads() can execute arbitrary code from untrusted data">>,
                    node.lineno,
                    <<"Use JSON or other safe serialization formats.">>)
    ELSE issues

\* for node in ast.walk(self.tree): the findings of each node, in walk order
_check_unsafe_deserialization(issues, tree) ==
    LET w == walk(tree) IN issues \o Flatten([i \in DOMAIN w |-> PickleNode(<<>>, w[i])])

(***************************************************************************)
(* The hardcoded-secret rule works on the text.  A pattern                 *)
(*    <key>\s*=\s*['"][<chars>]+['"]   (re.IGNORECASE, re.search)          *)
(* is a set of lower-case keys and the character classes the quoted        *)
(* literal may be made of.                                                 *)
(***************************************************************************)
secret_patterns ==
    <<[key |-> {"password"}, chars |-> {"\\w", "!@#$%^&*"}, type |-> "Password"],
      [key |-> {"api_key", "api-key", "apikey"}, chars |-> {"\\w", "-"}, type |-> "API Key"],
      [key |-> {"secret_key", "secret-key", "secretkey"}, chars |-> {"\\w", "-"},
       type |-> "Secret Key"],
      [key |-> {"token"}, chars |-> {"\\w", ".", "-"}, type |-> "Token"],
      [key |-> {"aws_secret", "aws-secret", "awssecret"}, chars |-> {"\\w", "/", "+"},
       type |-> "AWS Secret"]>>

\* the keys that the lower-cased token ends with
TokenKeys(tok) ==
    CASE tok \in {"password", "PASSWORD", "db_password"} -> {"password"}
      [] tok \in {"api_key", "API_KEY"} -> {"api_key"}
      [] tok = "secret_key" -> {"secret_key"}
      [] tok \in {"token", "auth_token"} -> {"token"}
      [] tok = "aws_secret" -> {"aws_secret"}
      [] OTHER -> {}

\* the character classes of the body of a quoted literal; {} when the token is no
\* quoted literal or an empty one
LiteralChars(tok) ==
    CASE tok \in {"\"abc123\"", "\"q\"", "'abc'"} -> {"\\w"}
      [] tok = "\"a.b-c\"" -> {"\\w", ".", "-"}
      [] tok = "\"two words\"" -> {"\\w", " "}
      [] OTHER -> {}

RECURSIVE SkipSpace(_, _)
SkipSpace(line, i) ==
    IF i <= Len(line) /\ line[i] \in {" ", "^L"} THEN SkipSpace(line, i + 1) ELSE i

re_search(pattern, line) ==
    \E i \in DOMAIN line :
        /\ TokenKeys(line[i]) \cap pattern.key # {}
        /\ LET eq == SkipSpace(line, i + 1)
               lit == SkipSpace(line, eq + 1)
           IN /\ eq <= Len(line)
              /\ line[eq] = "="
              /\ lit <= Len(line)
              /\ LiteralChars(line[lit]) # {}
              /\ LiteralChars(line[lit]) \subseteq pattern.chars

\* for pattern, secret_type in secret_patterns, on one line
SecretPatternsOfLine(lineno, line) ==
    Flatten([k \in DOMAIN secret_patterns |->
               IF re_search(secret_patterns[k], line)
               THEN _add_issue(<<>>, CRITICAL,
                               <<"Hardcoded secret: ", secret_patterns[k].type>>,
                               <<secret_patterns[k].type, " found in source code">>,
                               lineno,
                               <<"Move secrets to environment variables or secure vault.">>)
               ELSE <<>>])

\* enumerate(lines, start=1)
SecretLines(lines) ==
    Flatten([lineno \in DOMAIN lines |-> SecretPatternsOfLine(lineno, lines[lineno])])

_check_hardcoded_secrets(issues, source_code) ==
    issues \o SecretLines(splitlines(source_code))

weak_algorithms == {"md5", "sha1"}

\* str.upper() of the algorithm names
upper(s) == CASE s = "md5" -> "MD5" [] s = "sha1" -> "SHA1"

\* mutant: a weak algorithm is reported as CRITICAL
CryptoNode_Critical(issues, node) ==
    IF /\ IsCallOfAttribute(node)
       /\ FuncValueIsName(node, "hashlib")
       /\ FuncAttr(node) \in weak_algorithms
    THEN _add_issue(issues, CRITICAL,
                    <<"Weak cryptographic algorithm: ", FuncAttr(node)>>,
                    <<upper(FuncAttr(node)), " is cryptographically weak">>,
                    node.lineno,
                    <<"Use stronger algorithms like SHA-256 or SHA-512">>)
    ELSE issues

CryptoNode(issues, node) ==
    IF /\ IsCallOfAttribute(node)
       /\ FuncValueIsName(node, "hashlib")
       /\ FuncAttr(node) \in weak_algorithms
    THEN _add_issue(issues, MEDIUM,
                    <<"Weak cryptographic algorithm: ", FuncAttr(node)>>,
                    <<upper(FuncAttr(node)), " is cryptographically weak">>,
                    node.lineno,
                    <<"Use stronger algorithms like SHA-256 or SHA-512">>)
    ELSE issues

\* for node in ast.walk(self.tree): the findings of each node, in walk order
_check_weak_crypto(issues, tree) ==
    LET w == walk(tree) IN issues \o Flatten([i \in DOMAIN w |-> CryptoNode(<<>>, w[i])])

\* for keyword in node.keywords: shell=<the constant True>
ShellKeywords(issues, node, keywords) ==
    issues \o
    Flatten([k \in DOMAIN keywords |->
               IF /\ Value(keywords[k], "arg") = PStr("shell")
                  /\ Child(keywords[k], "value").kind = "Constant"
                  /\ Value(Child(keywords[k], "value"), "value") = PBool("True")
               THEN _add_issue(<<>>, HIGH, <<"Shell injection risk: shell=True">>,
                               <<"subprocess with shell=True is vulnerable to injection">>,
                               node.lineno,
                               <<"Set shell=False and pass command as list of arguments">>)
               ELSE <<>>])

\* mutant: os.system is looked for on the subprocess module
ShellNode_WrongModule(issues, node) ==
    IF node.kind # "Call" THEN issues
    ELSE IF Child(node, "func").kind = "Attribute"
    THEN IF FuncValueIsName(node, "subprocess") /\ FuncAttr(node) = "system"
         THEN _add_issue(issues, HIGH, <<"Shell injection risk: os.system()">>,
                         <<"os.system() with user input can execute arbitrary commands">>,
                         node.lineno,
                         <<"Use subprocess.run() with shell=False and argument list.">>)
         ELSE issues
    ELSE issues

\* The second branch is the elif of "if isinstance(node.func, ast.Attribute)":
\* it is tried only when node.func is no Attribute.
ShellNode(issues, node) ==
    IF node.kind # "Call" THEN issues
    ELSE IF Child(node, "func").kind = "Attribute"
    THEN IF FuncValueIsName(node, "os") /\ FuncAttr(node) = "system"
         THEN _add_issue(issues, HIGH, <<"Shell injection risk: os.system()">>,
                         <<"os.system() with user input can execute arbitrary commands">>,
                         node.lineno,
                         <<"Use subprocess.run() with shell=False and argument list.">>)
         ELSE issues
    ELSE IF Child(node, "func").kind = "Attribute" /\ FuncAttr(node) \in {"call", "run", "Popen"}
    THEN ShellKeywords(issues, node, Children(node, "keywords"))
    ELSE issues

\* for node in ast.walk(self.tree): the findings of each node, in walk order
_check_shell_injection(issues, tree) ==
    LET w == walk(tree) IN issues \o Flatten([i \in DOMAIN w |-> ShellNode(<<>>, w[i])])

(***************************************************************************)
(* SecurityScanner.scan: the seven rules in order, then list.sort with the *)
(* key severity_order.index(severity); the sort is stable.                 *)
(***************************************************************************)
severity_order == <<CRITICAL, HIGH, MEDIUM, LOW, INFO>>

\* mutant: the key is (severity rank, line)
SortKey_WithLine(x) == 1000 * ListIndex(severity_order, x.severity) + x.lineno

SortKey(x) == ListIndex(severity_order, x.severity)

\* insert x after every element whose key is not greater than the key of x
RECURSIVE InsertByKey(_, _)
InsertByKey(sorted, x) ==
    IF sorted = <<>> THEN <<x>>
    ELSE IF SortKey(Head(sorted)) <= SortKey(x)
    THEN <<Head(sorted)>> \o InsertByKey(Tail(sorted), x)
    ELSE <<x>> \o sorted

RECURSIVE SortFrom(_, _)
SortFrom(sorted, rest) ==
    IF rest = <<>> THEN sorted ELSE SortFrom(InsertByKey(sorted, Head(rest)), Tail(rest))

\* mutant: the list is returned as the checks left it
sort_Unsorted(issues) == issues

sort(issues) == SortFrom(<<>>, issues)

SecurityScanner(source_code, tree) ==
    [source_code |-> source_code, tree |-> tree, issues |-> <<>>]

\* self.issues of scanner s after the seven checks, before the sort
RunChecks(s) ==
    _check_shell_injection(
      _check_weak_crypto(
        _check_hardcoded_secrets(
          _check_unsafe_deserialization(
            _check_path_traversal(
              _check_sql_injection(
                _check_dangerous_functions(s.issues, s.tree),
                s.tree),
              s.tree),
            s.tree),
          s.source_code),
        s.tree),
      s.tree)

\* the scanner after scan(); scan() returns its issues
\* mutant: the checks work on a tree parsed anew from the text
RunCheck_Reparses(s, k) ==
    LET tree == ast_parse(s.source_code).tree IN
    CASE k = 1 -> [s EXCEPT !.issues = _check_dangerous_functions(s.issues, tree)]
      [] k = 2 -> [s EXCEPT !.issues = _check_sql_injection(s.issues, tree)]
      [] k = 3 -> [s EXCEPT !.issues = _check_path_traversal(s.issues, tree)]
      [] k = 4 -> [s EXCEPT !.issues = _check_unsafe_deserialization(s.issues, tree)]
      [] k = 5 -> [s EXCEPT !.issues = _check_hardcoded_secrets(s.issues, s.source_code)]
      [] k = 6 -> [s EXCEPT !.issues = _check_weak_crypto(s.issues, tree)]
      [] k = 7 -> [s EXCEPT !.issues = _check_shell_injection(s.issues, tree)]

\* the k-th check of scan() on scanner s
RunCheck(s, k) ==
    CASE k = 1 -> [s EXCEPT !.issues = _check_dangerous_functions(s.issues, s.tree)]
      [] k = 2 -> [s EXCEPT !.issues = _check_sql_injection(s.issues, s.tree)]
      [] k = 3 -> [s EXCEPT !.issues = _check_path_traversal(s.issues, s.tree)]
      [] k = 4 -> [s EXCEPT !.issues = _check_unsafe_deserialization(s.issues, s.tree)]
      [] k = 5 -> [s EXCEPT !.issues = _check_hardcoded_secrets(s.issues, s.source_code)]
      [] k = 6 -> [s EXCEPT !.issues = _check_weak_crypto(s.issues, s.tree)]
      [] k = 7 -> [s EXCEPT !.issues = _check_shell_injection(s.issues, s.tree)]

\* mutant: the findings are kept in one list that all scanners share
ScanStep_SharedIssues(s, k) ==
    IF k = 0
    THEN [s EXCEPT !.issues =
            Flatten([t \in DOMAIN calls |->
                       IF calls[t].scanner # <<>> THEN calls[t].scanner[1].issues ELSE <<>>])]
    ELSE IF k <= 7 THEN RunCheck(s, k)
    ELSE [s EXCEPT !.issues = sort(s.issues)]

\* the statements of scan() one by one: 0 empties self.issues, 1..7 are the
\* checks, 8 is the sort
ScanStep(s, k) ==
    IF k = 0 THEN [s EXCEPT !.issues = <<>>]
    ELSE IF k <= 7 THEN RunCheck(s, k)
    ELSE [s EXCEPT !.issues = sort(s.issues)]

\* mutant: scan() does not empty self.issues before the checks
scan_NoReset(s) == [s EXCEPT !.issues = sort(RunChecks(s))]

scan(s) ==
    LET reset == [s EXCEPT !.issues = <<>>]
    IN [reset EXCEPT !.issues = sort(RunChecks(reset))]

scan_security(source_code, tree) == scan(SecurityScanner(source_code, tree)).issues

(***************************************************************************)
(* JSON values (what json.dumps writes and json.loads reads back).  A dict *)
(* is the sequence of its items in insertion order.                        *)
(***************************************************************************)
JNull == [j |-> "null", s |-> "", n |-> 0, members |-> <<>>]
JStr(s) == [j |-> "str", s |-> s, n |-> 0, members |-> <<>>]
JInt(n) == [j |-> "int", s |-> "", n |-> n, members |-> <<>>]
JList(vals) == [j |-> "list", s |-> "", n |-> 0, members |-> vals]
JDict(items) == [j |-> "dict", s |-> "", n |-> 0, members |-> items]

\* the dict built by assigning the items in order: a key keeps the place of
\* its first assignment and the value of its last
DictOf(items) ==
    LET first == SelectSeq([i \in DOMAIN items |-> i],
                           LAMBDA i : \A j \in 1..(i - 1) : items[j].key # items[i].key)
        last(key) == CHOOSE i \in DOMAIN items :
                         /\ items[i].key = key
                         /\ \A j \in (i + 1)..Len(items) : items[j].key # key
    IN [k \in DOMAIN first |-> items[last(items[first[k]].key)]]

(***************************************************************************)
(* ASTAnalyzer._ast_to_dict                                                *)
(***************************************************************************)
RECURSIVE _ast_to_dict(_)

\* item if it is no ast.AST: the value itself
ItemToJson(item) ==
    IF IsAST(item) THEN _ast_to_dict(item)
    ELSE IF Value(item, "").ty = "NoneType" THEN JNull ELSE JStr(Value(item, "").repr)

\* mutant: the elements of a list-valued field are not converted
FieldToJson_NoElements(f) ==
    IF f.tag = "list" THEN JList(<<>>)
    ELSE IF f.tag = "node" THEN _ast_to_dict(f.nodes[1])
    ELSE IF f.prim.ty # "NoneType" THEN JStr(f.prim.repr) ELSE JNull

FieldToJson(f) ==
    IF f.tag = "list" THEN JList([i \in DOMAIN f.nodes |-> ItemToJson(f.nodes[i])])
    ELSE IF f.tag = "node" THEN _ast_to_dict(f.nodes[1])
    ELSE IF f.prim.ty # "NoneType" THEN JStr(f.prim.repr) ELSE JNull

_ast_to_dict(node) ==
    LET typed == <<[key |-> "type", val |-> JStr(node.kind)]>>
        placed == IF node.lineno > 0
                  THEN <<[key |-> "lineno", val |-> JInt(node.lineno)],
                         [key |-> "col_offset", val |-> JInt(node.col_offset)]>>
                  ELSE <<>>
        fields == [i \in DOMAIN node.fields |->
                     [key |-> node.fields[i].name, val |-> FieldToJson(node.fields[i])]]
    IN JDict(DictOf(typed \o placed \o fields))

(***************************************************************************)
(* Interpreter frames.  _calculate_max_depth uses one frame per level of   *)
(* the tree; _ast_to_dict one per level and one more for the list          *)
(* comprehension of each list-valued field.  A call that needs more frames *)
(* than are left raises RecursionError.                                    *)
(***************************************************************************)
RECURSIVE Height(_)
Height(node) ==
    1 + MaxOf([i \in DOMAIN iter_child_nodes(node) |-> Height(iter_child_nodes(node)[i])])

RECURSIVE DictFrames(_)
DictFrames(node) ==
    1 + MaxOf([i \in DOMAIN node.fields |->
                 IF node.fields[i].tag = "node" THEN DictFrames(node.fields[i].nodes[1])
                 ELSE IF node.fields[i].tag = "list"
                 THEN 1 + MaxOf([k \in DOMAIN node.fields[i].nodes |->
                                   IF IsAST(node.fields[i].nodes[k])
                                   THEN DictFrames(node.fields[i].nodes[k]) ELSE 0])
                 ELSE 0])

(***************************************************************************)
(* ASTAnalyzer line counts and nesting depth.                              *)
(***************************************************************************)
startswith_hash(toks) == toks # <<>> /\ Head(toks) = "#"

\* mutant: the comment marker is looked for at the start of the untrimmed line
_count_code_lines_NoStrip(source_code) ==
    Len(SelectSeq(splitlines(source_code),
                  LAMBDA line : strip(line) # <<>> /\ ~startswith_hash(line)))

_count_code_lines(source_code) ==
    Len(SelectSeq(splitlines(source_code),
                  LAMBDA line : strip(line) # <<>> /\ ~startswith_hash(strip(line))))

_count_comment_lines(source_code) ==
    Len(SelectSeq(splitlines(source_code), LAMBDA line : startswith_hash(strip(line))))

_count_blank_lines(source_code) ==
    Len(SelectSeq(splitlines(source_code), LAMBDA line : strip(line) = <<>>))

\* mutant: definitions do not nest
NestingKinds_NoDefinitions == {"If", "For", "While", "With", "Try"}

NestingKinds == {"If", "For", "While", "With", "Try", "FunctionDef", "ClassDef"}

RECURSIVE _calculate_max_depth(_, _)
_calculate_max_depth(node, current_depth) ==
    Max(current_depth,
        MaxOf([i \in DOMAIN iter_child_nodes(node) |->
                 IF iter_child_nodes(node)[i].kind \in NestingKinds
                 THEN _calculate_max_depth(iter_child_nodes(node)[i], current_depth + 1)
                 ELSE _calculate_max_depth(iter_child_nodes(node)[i], current_depth)]))

CountKind(tree, kinds) == Len(SelectSeq(walk(tree), LAMBDA n : n.kind \in kinds))

(***************************************************************************)
(* ASTAnalyzer.get_structure.  An optional value is [none, v].             *)
(***************************************************************************)
None == [none |-> TRUE, v |-> <<>>]
Some(v) == [none |-> FALSE, v |-> v]

\* ast.unparse of the expressions the chunks use, as tokens
RECURSIVE unparse(_)
unparse(node) ==
    CASE node.kind = "Name" -> <<Value(node, "id").repr>>
      [] node.kind = "Attribute" -> unparse(Child(node, "value")) \o <<".", Value(node, "attr").repr>>
      [] node.kind = "Constant" -> <<Value(node, "value").repr>>
      [] OTHER -> <<node.kind>>

\* ast.get_docstring(node) is not None
has_docstring(node) ==
    /\ Children(node, "body") # <<>>
    /\ Children(node, "body")[1].kind = "Expr"
    /\ Child(Children(node, "body")[1], "value").kind = "Constant"
    /\ Value(Child(Children(node, "body")[1], "value"), "value").ty = "str"

OptPrim(p) == IF p.ty = "NoneType" THEN None ELSE Some(p.repr)

FunctionRecord(node) ==
    [name |-> Value(node, "name").repr,
     lineno |-> node.lineno,
     args |-> [i \in DOMAIN Children(Child(node, "args"), "args") |->
                 Value(Children(Child(node, "args"), "args")[i], "arg").repr],
     returns |-> IF Field(node, "returns").tag = "node"
                 THEN Some(unparse(Child(node, "returns"))) ELSE None,
     decorators |-> [i \in DOMAIN Children(node, "decorator_list") |->
                       unparse(Children(node, "decorator_list")[i])],
     has_docstring |-> has_docstring(node)]

\* mutant: every function below the class is listed as a method
ClassRecord_AllNested(node) ==
    [name |-> Value(node, "name").repr,
     lineno |-> node.lineno,
     bases |-> [i \in DOMAIN Children(node, "bases") |-> unparse(Children(node, "bases")[i])],
     methods |-> LET defs == SelectSeq(walk(node), LAMBDA item : item.kind = "FunctionDef")
                 IN [i \in DOMAIN defs |-> Value(defs[i], "name").repr],
     has_docstring |-> has_docstring(node)]

ClassRecord(node) ==
    [name |-> Value(node, "name").repr,
     lineno |-> node.lineno,
     bases |-> [i \in DOMAIN Children(node, "bases") |-> unparse(Children(node, "bases")[i])],
     methods |-> LET defs == SelectSeq(Children(node, "body"), LAMBDA item : item.kind = "FunctionDef")
                 IN [i \in DOMAIN defs |-> Value(defs[i], "name").repr],
     has_docstring |-> has_docstring(node)]

\* f"{node.module}.{alias.name}": str(None) is "None"
ImportRecords(node) ==
    [i \in DOMAIN Children(node, "names") |->
       [module |-> IF node.kind = "Import"
                   THEN <<Value(Children(node, "names")[i], "name").repr>>
                   ELSE <<Value(node, "module").repr, ".",
                          Value(Children(node, "names")[i], "name").repr>>,
        alias |-> OptPrim(Value(Children(node, "names")[i], "asname")),
        lineno |-> node.lineno]]

StructureOf(tree) ==
    LET w == walk(tree)
        funcs == SelectSeq(w, LAMBDA n : n.kind = "FunctionDef")
        classes == SelectSeq(w, LAMBDA n : n.kind = "ClassDef")
        imports == SelectSeq(w, LAMBDA n : n.kind \in {"Import", "ImportFrom"})
    IN [functions |-> [i \in DOMAIN funcs |-> FunctionRecord(funcs[i])],
        classes |-> [i \in DOMAIN classes |-> ClassRecord(classes[i])],
        imports |-> Flatten([i \in DOMAIN imports |-> ImportRecords(imports[i])]),
        globals |-> <<>>]

\* mutant: coroutine definitions are counted as functions
MetricsOf_AsyncCounted(source_code, tree) ==
    [total_lines |-> Len(splitlines(source_code)),
     code_lines |-> _count_code_lines(source_code),
     comment_lines |-> _count_comment_lines(source_code),
     blank_lines |-> _count_blank_lines(source_code),
     function_count |-> CountKind(tree, {"FunctionDef", "AsyncFunctionDef"}),
     class_count |-> CountKind(tree, {"ClassDef"}),
     import_count |-> CountKind(tree, {"Import", "ImportFrom"}),
     max_nesting_depth |-> _calculate_max_depth(tree, 0)]

MetricsOf(source_code, tree) ==
    [total_lines |-> Len(splitlines(source_code)),
     code_lines |-> _count_code_lines(source_code),
     comment_lines |-> _count_comment_lines(source_code),
     blank_lines |-> _count_blank_lines(source_code),
     function_count |-> CountKind(tree, {"FunctionDef"}),
     class_count |-> CountKind(tree, {"ClassDef"}),
     import_count |-> CountKind(tree, {"Import", "ImportFrom"}),
     max_nesting_depth |-> _calculate_max_depth(tree, 0)]

(***************************************************************************)
(* The methods of ASTAnalyzer on an analyzer a = [source_code, tree,       *)
(* errors].  A call returns [raised, value]: the exception that leaves it  *)
(* ("" for none) and the value it returns.  frames is the number of        *)
(* interpreter frames left to the method when it is called.                *)
(***************************************************************************)
Return(v) == [raised |-> "", value |-> v]
Raise(e) == [raised |-> e, value |-> <<>>]

\* mutant: errors is an attribute of the class, one list for all analyzers
ASTAnalyzer_ClassErrors(source_code) ==
    [source_code |-> source_code, tree |-> NoTree,
     errors |-> Flatten([t \in DOMAIN calls |->
                           IF calls[t].analyzer # <<>> THEN calls[t].analyzer[1].errors
                           ELSE <<>>])]

ASTAnalyzer(source_code) == [source_code |-> source_code, tree |-> NoTree, errors |-> <<>>]

\* mutant: a rejected text leaves its message twice
parse_TwoMessages(a) ==
    LET r == ast_parse(a.source_code) IN
    IF r.raised = "" THEN [a EXCEPT !.tree = r.tree]
    ELSE [a EXCEPT !.errors = @ \o <<<<"Parse error: ", r.msg>>, <<"Parse error: ", r.msg>>>>]

\* mutant: a rejected text leaves no message
parse_NoMessage(a) ==
    LET r == ast_parse(a.source_code) IN
    IF r.raised = "" THEN [a EXCEPT !.tree = r.tree] ELSE a

\* f"{e.lineno}": str(None) is "None"
FormatLineno(lineno) == IF lineno = 0 THEN "None" ELSE ToString(lineno)

\* the analyzer after parse(), and what parse() returns
parse(a) ==
    LET r == ast_parse(a.source_code) IN
    IF r.raised = "" THEN [a EXCEPT !.tree = r.tree]
    ELSE IF r.raised = "SyntaxError"
    THEN [a EXCEPT !.errors = Append(@, <<"Syntax error at line ", FormatLineno(r.lineno), ": ", r.msg>>)]
    ELSE [a EXCEPT !.errors = Append(@, <<"Parse error: ", r.msg>>)]

parse_returns(a) == ast_parse(a.source_code).raised = ""

get_structure(a, frames) ==
    IF a.tree = NoTree THEN Return([error |-> "No AST available. Call parse() first."])
    ELSE Return(StructureOf(a.tree))

\* mutant: the metrics are computed without looking whether there is a tree
get_metrics_NoGuard(a, frames) ==
    IF a.tree = NoTree THEN Raise("AttributeError")
    ELSE IF 1 + Height(a.tree) > frames THEN Raise("RecursionError")
    ELSE Return(MetricsOf(a.source_code, a.tree))

get_metrics(a, frames) ==
    IF a.tree = NoTree THEN Return([error |-> "No AST available"])
    ELSE IF 1 + Height(a.tree) > frames THEN Raise("RecursionError")
    ELSE Return(MetricsOf(a.source_code, a.tree))

get_ast_json(a, frames) ==
    IF a.tree = NoTree THEN Return(JDict(<<[key |-> "error", val |-> JStr("No AST available")]>>))
    ELSE IF 1 + DictFrames(a.tree) > frames THEN Raise("RecursionError")
    ELSE Return(_ast_to_dict(a.tree))

\* str(e) of the exceptions the stages raise
ExceptionText(e) == CASE e = "RecursionError" -> <<"maximum recursion depth exceeded">>

(***************************************************************************)
(* analyze_code: the dict that is dumped, as a record.                     *)
(***************************************************************************)
\* mutant: the serialized tree is left out of the result
analyze_code_NoTree(source_code, frames) ==
    LET a == parse(ASTAnalyzer(source_code))
        structure == get_structure(a, frames - 1)
        metrics == get_metrics(a, frames - 1)
    IN IF ~parse_returns(ASTAnalyzer(source_code))
       THEN Return([success |-> FALSE, errors |-> a.errors])
       ELSE IF structure.raised # "" THEN
            Return([success |-> FALSE, errors |-> <<ExceptionText(structure.raised)>>])
       ELSE IF metrics.raised # "" THEN
            Return([success |-> FALSE, errors |-> <<ExceptionText(metrics.raised)>>])
       ELSE Return([success |-> TRUE, structure |-> structure.value, metrics |-> metrics.value])

\* mutant: no except clause, the exception of a stage leaves analyze_code
analyze_code_NoExcept(source_code, frames) ==
    LET a == parse(ASTAnalyzer(source_code))
        structure == get_structure(a, frames - 1)
        metrics == get_metrics(a, frames - 1)
        tree == get_ast_json(a, frames - 1)
    IN IF ~parse_returns(ASTAnalyzer(source_code))
       THEN Return([success |-> FALSE, errors |-> a.errors])
       ELSE IF structure.raised # "" THEN Raise(structure.raised)
       ELSE IF metrics.raised # "" THEN Raise(metrics.raised)
       ELSE IF tree.raised # "" THEN Raise(tree.raised)
       ELSE Return([success |-> TRUE, structure |-> structure.value,
                    metrics |-> metrics.value, ast |-> tree.value])

analyze_code(source_code, frames) ==
    LET a == parse(ASTAnalyzer(source_code))
        structure == get_structure(a, frames - 1)
        metrics == get_metrics(a, frames - 1)
        tree == get_ast_json(a, frames - 1)
    IN IF ~parse_returns(ASTAnalyzer(source_code))
       THEN Return([success |-> FALSE, errors |-> a.errors])
       ELSE IF structure.raised # "" THEN
            Return([success |-> FALSE, errors |-> <<ExceptionText(structure.raised)>>])
       ELSE IF metrics.raised # "" THEN
            Return([success |-> FALSE, errors |-> <<ExceptionText(metrics.raised)>>])
       ELSE IF tree.raised # "" THEN
            Return([success |-> FALSE, errors |-> <<ExceptionText(tree.raised)>>])
       ELSE Return([success |-> TRUE, structure |-> structure.value,
                    metrics |-> metrics.value, ast |-> tree.value])

(***************************************************************************)
(* The state machine.  input is the text under analysis; analyzer and      *)
(* scanner hold at most one object each (<<>> before construction);        *)
(* result is what the last call returned or raised.  calls holds the       *)
(* invocations that threads have under way (none in Spec and ObjectSpec).  *)
(***************************************************************************)
Called(op, r) == [op |-> op, raised |-> r.raised, value |-> r.value]

Init ==
    /\ input \in Inputs
    /\ analyzer = <<>>
    /\ scanner = <<>>
    /\ result = Called("", Return(<<>>))
    /\ calls = <<>>

NewAnalyzer ==
    /\ analyzer' = <<ASTAnalyzer(input)>>
    /\ result' = Called("ASTAnalyzer", Return(<<>>))
    /\ UNCHANGED <<input, scanner, calls>>

Parse ==
    /\ analyzer # <<>>
    /\ Len(analyzer[1].errors) < MaxErrors
    /\ analyzer' = <<parse(analyzer[1])>>
    /\ result' = Called("parse", Return(parse_returns(analyzer[1])))
    /\ UNCHANGED <<input, scanner, calls>>

GetStructure ==
    /\ analyzer # <<>>
    /\ result' = Called("get_structure", get_structure(analyzer[1], RecursionLimit))
    /\ UNCHANGED <<input, analyzer, scanner, calls>>

GetMetrics ==
    /\ analyzer # <<>>
    /\ result' = Called("get_metrics", get_metrics(analyzer[1], RecursionLimit))
    /\ UNCHANGED <<input, analyzer, scanner, calls>>

GetAstJson ==
    /\ analyzer # <<>>
    /\ result' = Called("get_ast_json", get_ast_json(analyzer[1], RecursionLimit))
    /\ UNCHANGED <<input, analyzer, scanner, calls>>

AnalyzeCode ==
    /\ result' = Called("analyze_code", analyze_code(input, RecursionLimit))
    /\ UNCHANGED <<input, analyzer, scanner, calls>>

\* the caller holds the tree that the front-end built of the text
NewScanner ==
    LET parsed == ast_parse(input) IN
    /\ parsed.raised = ""
    /\ scanner' = <<SecurityScanner(input, parsed.tree)>>
    /\ result' = Called("SecurityScanner", Return(<<>>))
    /\ UNCHANGED <<input, analyzer, calls>>

Scan ==
    /\ scanner # <<>>
    /\ scanner' = <<scan(scanner[1])>>
    /\ result' = Called("scan", Return(scan(scanner[1]).issues))
    /\ UNCHANGED <<input, analyzer, calls>>

ScanSecurity ==
    LET parsed == ast_parse(input) IN
    /\ parsed.raised = ""
    /\ result' = Called("scan_security", Return(scan_security(input, parsed.tree)))
    /\ UNCHANGED <<input, analyzer, scanner, calls>>

\* the two entry points, on every input text
Next ==
    \/ AnalyzeCode
    \/ ScanSecurity

Spec == Init /\ [][Next]_vars

\* the methods of one analyzer and one scanner, on the shorter input texts
ObjectInputs == {Pad(n) \o b : n \in 0..MaxPad, b \in {<<>>} \cup {<<c>> : c \in Chunks}}

ObjectInit ==
    /\ input \in ObjectInputs
    /\ analyzer = <<>>
    /\ scanner = <<>>
    /\ result = Called("", Return(<<>>))
    /\ calls = <<>>

ObjectNext ==
    \/ NewAnalyzer
    \/ Parse
    \/ GetStructure
    \/ GetMetrics
    \/ GetAstJson
    \/ NewScanner
    \/ Scan

ObjectSpec == ObjectInit /\ [][ObjectNext]_vars

(***************************************************************************)
(* Two threads that invoke the entry points, statement by statement.       *)
(* calls[t] is the invocation of thread t: the entry point, the place in   *)
(* its body (pc, and stage for the statements of scan), its arguments and  *)
(* locals (the analyzer or scanner it constructed, the values of the dict  *)
(* it is building) and, once it has returned, what it returned.  A caller  *)
(* of scan_security holds the tree of some text (tree_of), which need not  *)
(* be the text it passes.                                                  *)
(***************************************************************************)
Threads == {1, 2}

CallInputs == {<<"password", "os_system">>, <<"open_name", "eval">>, <<"unmatched">>}

\* the texts of which a caller can hold a tree
CallTrees == {src \in CallInputs : ast_parse(src).raised = ""}

Idle ==
    [op |-> "", pc |-> "idle", stage |-> 0, source |-> <<>>, tree_of |-> <<>>,
     analyzer |-> <<>>, scanner |-> <<>>, results |-> <<>>, out |-> <<>>]

Free(t) == calls[t].pc \in {"idle", "done"}

\* analyzer = ASTAnalyzer(source_code)
AnalyzeBegin(t) ==
    /\ Free(t)
    /\ \E src \in CallInputs :
          calls' = [calls EXCEPT ![t] =
                      [Idle EXCEPT !.op = "analyze_code", !.pc = "parse", !.source = src,
                                   !.analyzer = <<ASTAnalyzer(src)>>]]
    /\ UNCHANGED <<input, analyzer, scanner, result>>

\* if not analyzer.parse(): return json.dumps({"success": False, ...})
AnalyzeParse(t) ==
    /\ calls[t].pc = "parse"
    /\ LET a == calls[t].analyzer[1] IN
       calls' = [calls EXCEPT ![t] =
                   IF parse_returns(a)
                   THEN [@ EXCEPT !.analyzer = <<parse(a)>>, !.pc = "structure"]
                   ELSE [@ EXCEPT !.analyzer = <<parse(a)>>, !.pc = "done",
                                  !.out = <<Return([success |-> FALSE,
                                                    errors |-> parse(a).errors])>>]]
    /\ UNCHANGED <<input, analyzer, scanner, result>>

\* the entries of the results dict, in the order in which they are evaluated
StageCall(pc, a) ==
    CASE pc = "structure" -> get_structure(a, RecursionLimit - 1)
      [] pc = "metrics" -> get_metrics(a, RecursionLimit - 1)
      [] pc = "ast" -> get_ast_json(a, RecursionLimit - 1)

NextStage(pc) ==
    CASE pc = "structure" -> "metrics"
      [] pc = "metrics" -> "ast"
      [] pc = "ast" -> "done"

\* one entry of the dict; the except clause when it raises; the return after
\* the last entry
AnalyzeStage(t) ==
    /\ calls[t].pc \in {"structure", "metrics", "ast"}
    /\ LET r == StageCall(calls[t].pc, calls[t].analyzer[1])
           values == Append(calls[t].results, r.value)
       IN calls' = [calls EXCEPT ![t] =
                      IF r.raised # ""
                      THEN [@ EXCEPT !.pc = "done",
                                     !.out = <<Return([success |-> FALSE,
                                                       errors |-> <<ExceptionText(r.raised)>>])>>]
                      ELSE IF calls[t].pc = "ast"
                      THEN [@ EXCEPT !.pc = "done", !.results = values,
                                     !.out = <<Return([success |-> TRUE,
                                                       structure |-> values[1],
                                                       metrics |-> values[2],
                                                       ast |-> values[3]])>>]
                      ELSE [@ EXCEPT !.pc = NextStage(calls[t].pc), !.results = values]]
    /\ UNCHANGED <<input, analyzer, scanner, result>>

\* scanner = SecurityScanner(source_code, tree)
ScanBegin(t) ==
    /\ Free(t)
    /\ \E src \in CallInputs, held \in CallTrees :
          calls' = [calls EXCEPT ![t] =
                      [Idle EXCEPT !.op = "scan_security", !.pc = "scan", !.source = src,
                                   !.tree_of = held,
                                   !.scanner = <<SecurityScanner(src, ast_parse(held).tree)>>]]
    /\ UNCHANGED <<input, analyzer, scanner, result>>

\* the next statement of scanner.scan(); return self.issues after the sort
ScanStage(t) ==
    /\ calls[t].pc = "scan"
    /\ LET s == ScanStep(calls[t].scanner[1], calls[t].stage) IN
       calls' = [calls EXCEPT ![t] =
                   IF calls[t].stage = 8
                   THEN [@ EXCEPT !.scanner = <<s>>, !.pc = "done", !.out = <<Return(s.issues)>>]
                   ELSE [@ EXCEPT !.scanner = <<s>>, !.stage = @ + 1]]
    /\ UNCHANGED <<input, analyzer, scanner, result>>

CallInit ==
    /\ input = <<>>
    /\ analyzer = <<>>
    /\ scanner = <<>>
    /\ result = Called("", Return(<<>>))
    /\ calls = [t \in Threads |-> Idle]

CallNext ==
    \E t \in Threads :
        \/ AnalyzeBegin(t)
        \/ AnalyzeParse(t)
        \/ AnalyzeStage(t)
        \/ ScanBegin(t)
        \/ ScanStage(t)

CallSpec == CallInit /\ [][CallNext]_vars

(***************************************************************************)
(* Properties.                                                             *)
(***************************************************************************)
Parsed == ast_parse(input).raised = ""
Tree == ast_parse(input).tree
Analyzed == result.op = "analyze_code"
Scanned == result.op = "scan_security"
LineNumbers == 1..Len(PhysicalLines(input))
ResultKeys == {"structure", "metrics", "ast", "findings"}

\* the findings of the returned list with the title, on the line
Titled(title, ln) ==
    SelectSeq(result.value, LAMBDA f : f.title = title /\ f.lineno = ln)

\* the chunks of the input that are statements
Statements == {input[i] : i \in StmtIndexes(input)}
OnlyStatement(c) ==
    /\ Cardinality(StmtIndexes(input)) = 1
    /\ Statements = {c}
    /\ \A i \in 1..Len(input) : ChunkParse(input[i]) \in {"stmt", "none"}
LineOfStatement(c) == FirstLine(input, CHOOSE i \in StmtIndexes(input) : input[i] = c)

Rank(f) == ListIndex(severity_order, f.severity)

\* C1: when the front-end rejects the text, analyze_code returns success=false
\* with a non-empty errors list and none of structure, metrics, tree, findings.
C1_RejectedText ==
    (Analyzed /\ ~Parsed) =>
        /\ result.raised = ""
        /\ result.value.success = FALSE
        /\ result.value.errors # <<>>
        /\ DOMAIN result.value \cap ResultKeys = {}

C1_Witness ==
    /\ Analyzed
    /\ ast_parse(input).raised = "SyntaxError"
    /\ result.value.success = FALSE
    /\ Len(result.value.errors) = 1

IsShellTrue(k) ==
    /\ Value(k, "arg") = PStr("shell")
    /\ Child(k, "value").kind = "Constant"
    /\ Value(Child(k, "value"), "value") = PBool("True")
ShellTrueCalls(ln) ==
    SelectSeq(walk(Tree),
              LAMBDA n : /\ IsCallOfAttribute(n)
                         /\ FuncAttr(n) \in {"call", "run", "Popen"}
                         /\ n.lineno = ln
                         /\ \E i \in DOMAIN Children(n, "keywords") :
                                IsShellTrue(Children(n, "keywords")[i]))

\* C3 as stated: every call of an attribute call/run/Popen with shell=True
\* yields exactly one HIGH shell-injection finding at its line.
C3_Original ==
    Scanned =>
        \A ln \in LineNumbers :
            /\ Len(Titled(<<"Shell injection risk: shell=True">>, ln)) = Len(ShellTrueCalls(ln))
            /\ \A i \in DOMAIN Titled(<<"Shell injection risk: shell=True">>, ln) :
                   Titled(<<"Shell injection risk: shell=True">>, ln)[i].severity = HIGH

\* C4: a text whose only statement is os.system(cmd) yields exactly one
\* finding, HIGH, at the line of the call.
C4_OsSystemAlone ==
    (Scanned /\ OnlyStatement("os_system")) =>
        /\ Len(result.value) = 1
        /\ result.value[1].severity = HIGH
        /\ result.value[1].lineno = LineOfStatement("os_system")
        /\ result.value[1].title = <<"Shell injection risk: os.system()">>

C4_Witness ==
    /\ Scanned
    /\ OnlyStatement("os_system")
    /\ LineOfStatement("os_system") > 1
    /\ Len(result.value) = 1

\* C5: the returned list is sorted non-decreasing by severity rank.
C5_SortedBySeverity ==
    Scanned =>
        \A i, j \in DOMAIN result.value : i < j => Rank(result.value[i]) <= Rank(result.value[j])

\* the rules left the findings out of severity order, and they were returned
C5_Witness ==
    /\ Scanned
    /\ \E i, j \in DOMAIN RunChecks(SecurityScanner(input, Tree)) :
          /\ i < j
          /\ Rank(RunChecks(SecurityScanner(input, Tree))[i])
                > Rank(RunChecks(SecurityScanner(input, Tree))[j])

\* the rule that reports a finding, by the head of its title: the order of
\* the calls in SecurityScanner.scan
RuleOfTitle(title) ==
    CASE title[1] = "Dangerous function: " -> 1
      [] title[1] \in {"SQL Injection: f-string in SQL query",
                       "SQL Injection: String concatenation in query"} -> 2
      [] title[1] = "Potential path traversal" -> 3
      [] title[1] = "Unsafe deserialization: pickle" -> 4
      [] title[1] = "Hardcoded secret: " -> 5
      [] title[1] = "Weak cryptographic algorithm: " -> 6
      [] title[1] \in {"Shell injection risk: os.system()",
                       "Shell injection risk: shell=True"} -> 7

OfSeverity(issues, sev) == SelectSeq(issues, LAMBDA f : f.severity = sev)

\* C6: findings of equal severity are returned in the order in which the
\* rules appended them (rule order, then traversal order), whatever their lines.
C6_StableSort ==
    Scanned =>
        /\ \A sev \in Range(severity_order) :
               OfSeverity(result.value, sev)
                   = OfSeverity(RunChecks(SecurityScanner(input, Tree)), sev)
        /\ \A i, j \in DOMAIN result.value :
               (i < j /\ result.value[i].severity = result.value[j].severity)
                   => RuleOfTitle(result.value[i].title) <= RuleOfTitle(result.value[j].title)

\* two findings of one severity, the first on the later line
C6_Witness ==
    /\ Scanned
    /\ \E i, j \in DOMAIN result.value :
          /\ i < j
          /\ result.value[i].severity = result.value[j].severity
          /\ result.value[i].lineno > result.value[j].lineno

\* a stage after the parse runs out of frames
StageFails ==
    /\ Parsed
    /\ \/ 2 + Height(Tree) > RecursionLimit
       \/ 2 + DictFrames(Tree) > RecursionLimit

\* C7: when a stage after the parse fails, analyze_code raises nothing and
\* returns success=false with exactly one error and no partial results.
C7_StageFailureCaught ==
    (Analyzed /\ StageFails) =>
        /\ result.raised = ""
        /\ result.value.success = FALSE
        /\ Len(result.value.errors) = 1
        /\ DOMAIN result.value = {"success", "errors"}

\* the metrics are computed, the serializer fails
C7_Witness ==
    /\ Analyzed
    /\ Parsed
    /\ 2 + Height(Tree) <= RecursionLimit
    /\ 2 + DictFrames(Tree) > RecursionLimit
    /\ result.value.success = FALSE

\* C8: every text of which the front-end builds a tree is analyzed with
\* success=true and no errors.
C8_Original ==
    (Analyzed /\ Parsed) => (result.value.success /\ "errors" \notin DOMAIN result.value)

\* the calls of the bare name fn on line ln
CallsOfName(fn, ln) ==
    SelectSeq(walk(Tree), LAMBDA n : IsCallOfName(n) /\ FuncId(n) = fn /\ n.lineno = ln)

\* C9: every call of a bare name eval, exec, compile or __import__ yields
\* exactly one dangerous-function finding at its line, HIGH for eval and exec,
\* MEDIUM for compile and __import__, its title naming the function; a text
\* that is only eval(x) yields exactly that one finding.
C9_DangerousFunctions ==
    Scanned =>
        /\ \A fn \in {"eval", "exec", "compile", "__import__"} : \A ln \in LineNumbers :
               LET found == Titled(<<"Dangerous function: ", fn, "()">>, ln) IN
               /\ Len(found) = Len(CallsOfName(fn, ln))
               /\ \A i \in DOMAIN found :
                      found[i].severity = IF fn \in {"eval", "exec"} THEN HIGH ELSE MEDIUM
        /\ input = <<"eval">> =>
               /\ Len(result.value) = 1
               /\ result.value[1].severity = HIGH
               /\ result.value[1].title = <<"Dangerous function: ", "eval", "()">>

C9_Witness ==
    /\ Scanned
    /\ Statements = {"nested", "dunder_import"}
    /\ Len(result.value) = 3

\* the physical lines that a secret pattern matches
SecretLineNumbers ==
    {k \in LineNumbers :
        \E p \in DOMAIN secret_patterns : re_search(secret_patterns[p], PhysicalLines(input)[k])}

\* C10 as stated: a text with one matching line, physical line k, yields
\* exactly one hardcoded-secret finding, CRITICAL, with line k.
C10_Original ==
    (Scanned /\ Cardinality(SecretLineNumbers) = 1) =>
        LET secrets == SelectSeq(result.value, LAMBDA f : RuleOfTitle(f.title) = 5) IN
        /\ Len(secrets) = 1
        /\ secrets[1].severity = CRITICAL
        /\ secrets[1].lineno \in SecretLineNumbers


\* the metrics of a successful analysis
Succeeded == Analyzed /\ result.raised = "" /\ result.value.success
Metrics == result.value.metrics

\* the lines the counters see that are blank, comment and code lines
StrippedLine(i) == strip(splitlines(input)[i])
BlankLines == {i \in DOMAIN splitlines(input) : StrippedLine(i) = <<>>}
CommentLines ==
    {i \in DOMAIN splitlines(input) : StrippedLine(i) # <<>> /\ Head(StrippedLine(i)) = "#"}
CodeLines ==
    {i \in DOMAIN splitlines(input) : StrippedLine(i) # <<>> /\ Head(StrippedLine(i)) # "#"}

Structure == result.value.structure

\* the chunks of the input that are one of cs
ChunksAmong(cs) == {i \in DOMAIN input : input[i] \in cs}

\* C12: function_count is the number of function records of the structure
\* report and class_count the number of its class records; a method counts as
\* a function, a coroutine definition does not.
C12_CountsMatchStructure ==
    Succeeded =>
        /\ Metrics.function_count = Len(Structure.functions)
        /\ Metrics.class_count = Len(Structure.classes)
        /\ Metrics.function_count
               = Cardinality(ChunksAmong({"def_f", "class_c", "def_star"}))
                 + 3 * Cardinality(ChunksAmong({"class_nested"}))
        /\ Metrics.class_count = Cardinality(ChunksAmong({"class_c", "class_nested"}))

C12_Witness ==
    /\ Succeeded
    /\ "async_def" \in Range(input)
    /\ "class_c" \in Range(input)
    /\ Metrics.function_count = 1
    /\ Metrics.class_count = 1
    /\ Structure.functions[1].name = "m"
    /\ Structure.classes[1].methods = <<"m">>


\* the values of a JSON value, itself included, level by level
JsonMembers(v) ==
    IF v.j = "dict" THEN [i \in DOMAIN v.members |-> v.members[i].val]
    ELSE IF v.j = "list" THEN v.members
    ELSE <<>>

RECURSIVE JsonValues(_)
JsonValues(todo) ==
    IF todo = <<>> THEN <<>>
    ELSE todo \o JsonValues(Flatten([i \in DOMAIN todo |-> JsonMembers(todo[i])]))

\* the generic records of the serialized tree whose type is kind
RecordsOfType(kind) ==
    SelectSeq(JsonValues(<<result.value.ast>>),
              LAMBDA v : /\ v.j = "dict"
                         /\ \E i \in DOMAIN v.members :
                                v.members[i].key = "type" /\ v.members[i].val = JStr(kind))

\* C13: the serialized tree holds, at any depth, as many generic records of
\* type FunctionDef as the structure report has function records.
C13_FunctionRecordsInTree ==
    Succeeded => Len(RecordsOfType("FunctionDef")) = Len(Structure.functions)

C13_Witness ==
    /\ Succeeded
    /\ Len(Structure.functions) = 2
    /\ Len(RecordsOfType("FunctionDef")) = 2
    /\ Len(RecordsOfType("ClassDef")) = 1


\* the nodes below the nodes of todo, each with the number of control-flow and
\* definition nodes on the path from the root to it (the root left out)
Nested(p) ==
    [i \in DOMAIN iter_child_nodes(p.node) |->
       [node |-> iter_child_nodes(p.node)[i],
        depth |-> IF iter_child_nodes(p.node)[i].kind
                       \in {"If", "For", "While", "With", "Try", "FunctionDef", "ClassDef"}
                  THEN p.depth + 1 ELSE p.depth]]

RECURSIVE PathDepths(_)
PathDepths(todo) ==
    IF todo = <<>> THEN <<>>
    ELSE [i \in DOMAIN todo |-> todo[i].depth]
         \o PathDepths(Flatten([i \in DOMAIN todo |-> Nested(todo[i])]))

DeepestPath == MaxOf(PathDepths(<<[node |-> Tree, depth |-> 0]>>))

\* C17: max_nesting_depth is the largest number, over the paths from the root
\* to a node, of nodes on the path (the root left out) that are an If, For,
\* While, With, Try, FunctionDef or ClassDef; it is 0 when there is none.
C17_MaxNestingDepth ==
    Succeeded =>
        /\ Metrics.max_nesting_depth = DeepestPath
        /\ (CountKind(Tree, {"If", "For", "While", "With", "Try", "FunctionDef", "ClassDef"}) = 0
              => Metrics.max_nesting_depth = 0)

C17_Witness ==
    /\ Succeeded
    /\ input = <<"def_f", "if_for">>
    /\ Metrics.max_nesting_depth = 2


\* the findings of rule number rule in the returned list, on line ln
FindingsOfRule(rule, ln) ==
    SelectSeq(result.value, LAMBDA f : RuleOfTitle(f.title) = rule /\ f.lineno = ln)

\* node is a string literal or holds one somewhere below it
HoldsStringLiteral(node) ==
    \E n \in Range(walk(node)) : n.kind = "Constant" /\ Value(n, "value").ty = "str"

\* the calls <x>.execute(first, ...) on line ln whose first positional argument
\* is an f-string, or a '+' expression that holds a string literal
UnsafeExecuteCalls(ln) ==
    SelectSeq(walk(Tree),
              LAMBDA n : /\ n.kind = "Call"
                         /\ n.lineno = ln
                         /\ Child(n, "func").kind = "Attribute"
                         /\ Value(Child(n, "func"), "attr") = PStr("execute")
                         /\ Len(Children(n, "args")) >= 1
                         /\ \/ Children(n, "args")[1].kind = "JoinedStr"
                            \/ /\ Children(n, "args")[1].kind = "BinOp"
                               /\ Child(Children(n, "args")[1], "op").kind = "Add"
                               /\ HoldsStringLiteral(Children(n, "args")[1]))

FileCalls(ln) ==
    SelectSeq(walk(Tree),
              LAMBDA n : /\ n.kind = "Call"
                         /\ n.lineno = ln
                         /\ Child(n, "func").kind = "Name"
                         /\ Value(Child(n, "func"), "id").repr \in {"open", "read", "write"}
                         /\ Len(Children(n, "args")) >= 1)
FileCallsOn(ln, kinds) ==
    SelectSeq(FileCalls(ln), LAMBDA n : Children(n, "args")[1].kind \in kinds)
FileCallsNotOn(ln, kinds) ==
    SelectSeq(FileCalls(ln), LAMBDA n : Children(n, "args")[1].kind \notin kinds)

\* C20 as stated: the path-traversal rule yields one MEDIUM finding for every
\* call of a bare name open, read or write whose first argument is no literal,
\* and none when it is a literal or there is no positional argument.
C20_Original ==
    Scanned =>
        \A ln \in LineNumbers :
            Len(FindingsOfRule(3, ln)) = Len(FileCallsNotOn(ln, {"Constant"}))

\* C20 as amended: the path-traversal rule yields one MEDIUM finding for every
\* call of a bare name open, read or write whose first positional argument is a
\* name reference or a binary expression, and none when the first argument is
\* anything else (a literal, an attribute access, ...) or there is none.
C20_NameOrBinaryExpression ==
    Scanned =>
        \A ln \in LineNumbers :
            /\ Len(FindingsOfRule(3, ln)) = Len(FileCallsOn(ln, {"Name", "BinOp"}))
            /\ \A f \in Range(FindingsOfRule(3, ln)) : f.severity = MEDIUM

C20_Witness ==
    /\ Scanned
    /\ input = <<"open_attr", "open_sum">>
    /\ Len(FindingsOfRule(3, 1)) = 0
    /\ Len(FindingsOfRule(3, 2)) = 1


\* C18 as stated: when the front-end reports a syntax error, analyze_code
\* returns success=false with exactly one message, which holds a line number
\* of the text and the description that the front-end reported.
C18_Original ==
    (Analyzed /\ ast_parse(input).raised = "SyntaxError") =>
        /\ result.raised = ""
        /\ result.value.success = FALSE
        /\ Len(result.value.errors) = 1
        /\ \E ln \in LineNumbers :
               result.value.errors[1]
                   = <<"Syntax error at line ", ToString(ln), ": ", ast_parse(input).msg>>


\* thread t has returned from an invocation of op
Returned(t, op) == calls[t].pc = "done" /\ calls[t].op = op
Out(t) == calls[t].out[1]

\* C14: two invocations of analyze_code on the same text return the same
\* result, whether the text parses or not, whatever was invoked before them
\* and whatever runs beside them.
C14_SameInputSameResult ==
    \A t, u \in Threads :
        (/\ Returned(t, "analyze_code")
         /\ Returned(u, "analyze_code")
         /\ calls[t].source = calls[u].source) => Out(t) = Out(u)

C14_Witness ==
    /\ Returned(1, "analyze_code")
    /\ Returned(2, "analyze_code")
    /\ calls[1].source = <<"unmatched">>
    /\ calls[2].source = <<"unmatched">>
    /\ Out(1).value.success = FALSE
    /\ Len(Out(2).value.errors) = 1

\* C15: an invocation that runs interleaved with another returns exactly
\* what it returns when it runs alone: analyze_code(text) for analyze_code,
\* scan_security(text, tree) for scan_security.
C15_ResultOfRunningAlone ==
    \A t \in Threads :
        /\ Returned(t, "analyze_code") => Out(t) = analyze_code(calls[t].source, RecursionLimit)
        /\ Returned(t, "scan_security") =>
               Out(t) = Return(scan_security(calls[t].source, calls[t].scanner[1].tree))

C15_Witness ==
    /\ Returned(1, "scan_security")
    /\ calls[2].op = "scan_security"
    /\ calls[2].pc = "scan"
    /\ calls[2].stage > 5
    /\ calls[1].source # calls[2].source
    /\ Out(1).value # <<>>
    /\ calls[2].scanner[1].issues # <<>>
    /\ Range(Out(1).value) \cap Range(calls[2].scanner[1].issues) = {}

\* the findings of check k in a list of findings
OfRule(issues, k) == SelectSeq(issues, LAMBDA f : RuleOfTitle(f.title) = k)

\* what check k finds in the tree held by the caller of thread t (check 5: in
\* the text it passed)
SuppliedTree(t) == ast_parse(calls[t].tree_of).tree
ExpectedOfRule(t, k) ==
    CASE k = 1 -> _check_dangerous_functions(<<>>, SuppliedTree(t))
      [] k = 2 -> _check_sql_injection(<<>>, SuppliedTree(t))
      [] k = 3 -> _check_path_traversal(<<>>, SuppliedTree(t))
      [] k = 4 -> _check_unsafe_deserialization(<<>>, SuppliedTree(t))
      [] k = 5 -> _check_hardcoded_secrets(<<>>, calls[t].source)
      [] k = 6 -> _check_weak_crypto(<<>>, SuppliedTree(t))
      [] k = 7 -> _check_shell_injection(<<>>, SuppliedTree(t))

\* C16: scan_security runs the seven checks on the tree that the caller
\* supplied, not on a tree parsed from the text, and returns the findings
\* sorted by severity; at every statement of the scan, and after it, the tree
\* and the text are as the caller supplied them.
C16_SuppliedTreeScanned ==
    \A t \in Threads :
        calls[t].op = "scan_security" =>
            /\ calls[t].scanner[1].tree = SuppliedTree(t)
            /\ calls[t].scanner[1].source_code = calls[t].source
            /\ Returned(t, "scan_security") =>
                   /\ \A k \in 1..7 :
                          /\ Len(OfRule(Out(t).value, k)) = Len(ExpectedOfRule(t, k))
                          /\ Range(OfRule(Out(t).value, k)) = Range(ExpectedOfRule(t, k))
                   /\ \A i, j \in DOMAIN Out(t).value :
                          i < j => Rank(Out(t).value[i]) <= Rank(Out(t).value[j])

C16_Witness ==
    /\ Returned(1, "scan_security")
    /\ calls[1].source = <<"password", "os_system">>
    /\ calls[1].tree_of = <<"open_name", "eval">>
    /\ Len(OfRule(Out(1).value, 1)) = 1
    /\ Len(OfRule(Out(1).value, 5)) = 1
    /\ Len(OfRule(Out(1).value, 7)) = 0


\* the names that stand for the pickle module in the text: pickle itself and
\* the local names that an "import pickle as <name>" introduces
PickleNames ==
    {"pickle"}
    \cup {Value(a, "asname").repr :
            a \in {a \in Range(walk(Tree)) : /\ a.kind = "alias"
                                              /\ Value(a, "name") = PStr("pickle")
                                              /\ Value(a, "asname").ty = "str"}}

\* the calls <name>.loads(...) and <name>.load(...) on line ln with <name> in names
LoadCalls(ln, names) ==
    SelectSeq(walk(Tree),
              LAMBDA n : /\ n.kind = "Call"
                         /\ n.lineno = ln
                         /\ Child(n, "func").kind = "Attribute"
                         /\ Value(Child(n, "func"), "attr").repr \in {"loads", "load"}
                         /\ Child(Child(n, "func"), "value").kind = "Name"
                         /\ Value(Child(Child(n, "func"), "value"), "id").repr \in names)

\* C21 as stated: the unsafe-deserialization rule yields one HIGH finding for
\* every call <name>.loads(...) or <name>.load(...) whose <name> stands for the
\* pickle module, a local alias of an aliased import included, and none otherwise.
C21_Original ==
    Scanned =>
        \A ln \in LineNumbers :
            /\ Len(FindingsOfRule(4, ln)) = Len(LoadCalls(ln, PickleNames))
            /\ \A f \in Range(FindingsOfRule(4, ln)) : f.severity = HIGH


\* the import statements of the input, read off the text: the lines that start
\* with "import" or "from", the module path and symbol they name and the local
\* name after "as"
ImportLines ==
    SelectSeq([ln \in DOMAIN PhysicalLines(input) |-> ln],
              LAMBDA ln : /\ PhysicalLines(input)[ln] # <<>>
                          /\ PhysicalLines(input)[ln][1] \in {"import", "from"})
WrittenModulePath(line) ==
    IF line[1] = "import" THEN <<line[3]>> ELSE <<line[3], ".", line[7]>>
WrittenAlias(line) ==
    IF line[Len(line) - 2] = "as" THEN Some(line[Len(line)]) ELSE None

\* C22 as stated: the structure report has one import record per imported
\* alias, in order; module_path is the module name of a plain import and, for
\* every from-import, the module path as written with the symbol appended;
\* alias is the local name if there is one, line the line of the statement.
C22_Original ==
    Succeeded =>
        /\ Len(Structure.imports) = Len(ImportLines)
        /\ \A k \in DOMAIN ImportLines :
               /\ Structure.imports[k].lineno = ImportLines[k]
               /\ Structure.imports[k].module
                      = WrittenModulePath(PhysicalLines(input)[ImportLines[k]])
               /\ Structure.imports[k].alias
                      = WrittenAlias(PhysicalLines(input)[ImportLines[k]])


\* get_structure has returned the report of a tree
StructureReturned ==
    /\ result.op = "get_structure"
    /\ result.raised = ""
    /\ analyzer[1].tree # NoTree

\* the nodes of the analyzer's tree of a kind, in traversal order, and the
\* functions that are immediately below a node
NodesOfKind(kind) == SelectSeq(walk(analyzer[1].tree), LAMBDA n : n.kind = kind)
FunctionsBelow(node) == SelectSeq(iter_child_nodes(node), LAMBDA n : n.kind = "FunctionDef")

\* C23: the methods of a class record are the names of the functions that are
\* direct children of the class body, in body order; a function nested deeper
\* is not listed; every listed method has its own function record.
C23_DirectMethodsOnly ==
    StructureReturned =>
        /\ Len(result.value.classes) = Len(NodesOfKind("ClassDef"))
        /\ \A k \in DOMAIN NodesOfKind("ClassDef") :
               LET direct == FunctionsBelow(NodesOfKind("ClassDef")[k]) IN
               /\ result.value.classes[k].methods
                      = [i \in DOMAIN direct |-> Value(direct[i], "name").repr]
               /\ \A i \in DOMAIN direct :
                      \E f \in Range(result.value.functions) :
                          /\ f.name = Value(direct[i], "name").repr
                          /\ f.lineno = direct[i].lineno

C23_Witness ==
    /\ StructureReturned
    /\ "class_nested" \in Range(input)
    /\ result.value.classes[1].methods = <<"m">>
    /\ [i \in 1..3 |-> result.value.functions[i].name] = <<"m", "inner", "n">>


\* get_ast_json has returned the serialized tree
TreeSerialized ==
    /\ result.op = "get_ast_json"
    /\ result.raised = ""
    /\ analyzer[1].tree # NoTree

\* a primitive as the serializer is to render it
Rendered(p) == IF p.ty = "NoneType" THEN JNull ELSE JStr(p.repr)

\* the entry of a record under a key
Entry(json, key) == json.members[CHOOSE i \in DOMAIN json.members : json.members[i].key = key].val

\* the keys that the record of a node is to have, in order
KeysOf(node) ==
    <<"type">>
    \o (IF node.lineno > 0 THEN <<"lineno", "col_offset">> ELSE <<>>)
    \o [i \in DOMAIN node.fields |-> node.fields[i].name]

\* the record p.json is the record of the node p.node, its entries being
\* looked at but not what is nested in them
RecordOfNode(p) ==
    /\ p.json.j = "dict"
    /\ [i \in DOMAIN p.json.members |-> p.json.members[i].key] = KeysOf(p.node)
    /\ Entry(p.json, "type") = JStr(p.node.kind)
    /\ p.node.lineno > 0 =>
           /\ Entry(p.json, "lineno") = JInt(p.node.lineno)
           /\ Entry(p.json, "col_offset") = JInt(p.node.col_offset)
    /\ \A i \in DOMAIN p.node.fields :
           LET f == p.node.fields[i]
               v == Entry(p.json, f.name)
           IN CASE f.tag = "prim" -> v = Rendered(f.prim)
                [] f.tag = "node" -> v.j = "dict"
                [] f.tag = "list" ->
                      /\ v.j = "list"
                      /\ Len(v.members) = Len(f.nodes)
                      /\ \A k \in DOMAIN f.nodes :
                             IF IsAST(f.nodes[k]) THEN v.members[k].j = "dict"
                             ELSE v.members[k] = Rendered(Value(f.nodes[k], ""))

\* the nodes immediately below p.node, each with the value that stands in its
\* place in p.json
PairsBelow(p) ==
    Flatten([i \in DOMAIN p.node.fields |->
               LET f == p.node.fields[i]
                   v == Entry(p.json, f.name)
               IN IF f.tag = "node" THEN <<[node |-> f.nodes[1], json |-> v]>>
                  ELSE IF f.tag = "list"
                  THEN SelectSeq([k \in DOMAIN f.nodes |-> [node |-> f.nodes[k], json |-> v.members[k]]],
                                 LAMBDA q : IsAST(q.node))
                  ELSE <<>>])

RECURSIVE Pairs(_)
Pairs(todo) ==
    IF todo = <<>> THEN <<>>
    ELSE todo \o Pairs(Flatten([i \in DOMAIN todo |-> PairsBelow(todo[i])]))

\* C24 as stated: the serializer maps every node to a record with its kind under type,
\* its position if it has one, and one entry per declared field: a list for a
\* list-valued field, element by element, a nested record for a single child,
\* the string form for a primitive, also where the primitive is an element of a
\* list, and null for an absent value only.
C24_Original ==
    TreeSerialized =>
        \A p \in Range(Pairs(<<[node |-> analyzer[1].tree, json |-> result.value]>>)) :
            RecordOfNode(p)


\* the parameters that a function declares, in the order of declaration:
\* positional-only, positional, *starred, keyword-only, **starred
DeclaredParameters(node) ==
    SelectSeq(iter_child_nodes(Child(node, "args")), LAMBDA n : n.kind = "arg")

\* C25 as stated: the parameter names of a function record are the names of
\* all parameters that the function declares, verbatim and in declaration order.
C25_Original ==
    StructureReturned =>
        /\ Len(result.value.functions) = Len(NodesOfKind("FunctionDef"))
        /\ \A k \in DOMAIN NodesOfKind("FunctionDef") :
               LET declared == DeclaredParameters(NodesOfKind("FunctionDef")[k]) IN
               result.value.functions[k].args
                   = [i \in DOMAIN declared |-> Value(declared[i], "arg").repr]


\* what one run of the seven checks finds in the input, sorted
FindingsOfOneRun == sort(RunChecks(SecurityScanner(input, Tree)))

\* C26: scan() empties the scanner's list of findings before the checks, so
\* every scan of one scanner, the first and any later one, returns and leaves
\* behind the findings of one run: nothing accumulates, nothing is duplicated.
C26_ScanStartsAfresh ==
    scanner # <<>> =>
        /\ scanner[1].issues \in {<<>>, FindingsOfOneRun}
        /\ result.op = "scan" =>
               /\ result.value = FindingsOfOneRun
               /\ scanner[1].issues = FindingsOfOneRun

C26_Witness ==
    /\ scanner # <<>>
    /\ result.op = "scan"
    /\ Len(scanner[1].issues) = 2
    /\ result.value = scanner[1].issues


\* a step that is a call of parse() on the analyzer
ParseCalled == analyzer # <<>> /\ analyzer' # <<>> /\ result'.op = "parse"

Getters == {"get_structure", "get_metrics", "get_ast_json"}

\* the message under "error" in the value a getter returned, <<>> if the value
\* is not a record of the one key "error"
ErrorOf(op, value) ==
    IF op = "get_ast_json"
    THEN IF value.j = "dict" /\ Len(value.members) = 1 /\ value.members[1].key = "error"
              /\ value.members[1].val.j = "str"
         THEN value.members[1].val.s ELSE <<>>
    ELSE IF DOMAIN value = {"error"} THEN value.error ELSE <<>>

\* C28: while the analyzer has no tree (before parse() or after a parse() that
\* failed), get_structure, get_metrics and get_ast_json return a record of the
\* one key "error" and raise nothing, and the call leaves the analyzer's tree
\* and errors as they were.
C28_ErrorRecordWithoutTree ==
    /\ []((analyzer # <<>> /\ result.op \in Getters /\ analyzer[1].tree = NoTree) =>
            /\ result.raised = ""
            /\ ErrorOf(result.op, result.value) =
                   IF result.op = "get_structure"
                   THEN "No AST available. Call parse() first."
                   ELSE "No AST available")
    /\ [][(analyzer # <<>> /\ result'.op \in Getters /\ analyzer[1].tree = NoTree) =>
             /\ analyzer' # <<>>
             /\ analyzer'[1].tree = NoTree
             /\ analyzer'[1].errors = analyzer[1].errors]_vars

C28_Witness ==
    /\ analyzer # <<>>
    /\ analyzer[1].tree = NoTree
    /\ Len(analyzer[1].errors) = 1
    /\ result.op = "get_metrics"
    /\ result.raised = ""
    /\ ErrorOf("get_metrics", result.value) = "No AST available"


\* the returned findings of the hardcoded-secret rule, in the order returned
SecretFindings == SelectSeq(result.value, LAMBDA f : RuleOfTitle(f.title) = 5)

\* the returned findings of secret pattern number p with line number ln
FindingsOfPattern(p, ln) ==
    SelectSeq(result.value,
              LAMBDA f : f.title = <<"Hardcoded secret: ", secret_patterns[p].type>>
                         /\ f.lineno = ln)

\* C29 as stated: for each physical line and each of the five patterns there is
\* exactly one finding with that line's number if the pattern matches the line
\* (however often) and none if it does not; the findings of the rule are in
\* non-decreasing line order.
C29_Original ==
    Scanned =>
        /\ \A k \in LineNumbers : \A p \in DOMAIN secret_patterns :
              Len(FindingsOfPattern(p, k)) =
                  IF re_search(secret_patterns[p], PhysicalLines(input)[k]) THEN 1 ELSE 0
        /\ \A i \in DOMAIN SecretFindings :
              /\ SecretFindings[i].lineno \in LineNumbers
              /\ i > 1 => SecretFindings[i - 1].lineno <= SecretFindings[i].lineno


\* C30: every finding has one of the severities CRITICAL, HIGH, MEDIUM, each a
\* member of the severity order of the sort; the CRITICAL findings are those of
\* the hardcoded-secret rule, and they are returned before every finding of
\* the rules that read the tree.
C30_SeveritiesOfRules ==
    Scanned =>
        /\ \A i \in DOMAIN result.value :
              /\ result.value[i].severity \in {"CRITICAL", "HIGH", "MEDIUM"}
              /\ \E r \in DOMAIN severity_order :
                     severity_order[r] = result.value[i].severity
              /\ result.value[i].severity = "CRITICAL"
                     <=> RuleOfTitle(result.value[i].title) = 5
        /\ \A i, j \in DOMAIN result.value :
              (i < j /\ RuleOfTitle(result.value[j].title) = 5)
                  => RuleOfTitle(result.value[i].title) = 5

\* a secret on a later line than a call of eval, found by a later rule, is
\* returned first
C30_Witness ==
    /\ Scanned
    /\ Len(result.value) = 2
    /\ result.value[1].severity = "CRITICAL"
    /\ RuleOfTitle(result.value[1].title) = 5
    /\ RuleOfTitle(result.value[2].title) = 1
    /\ result.value[2].severity = "HIGH"
    /\ result.value[2].lineno < result.value[1].lineno

=============================================================================
